---- MODULE Spec2Model ----
(***************************************************************************)
(* Model of the UBL invoice builder of efactura-ts-sdk                     *)
(* (src/src/ubl/InvoiceBuilder.ts): input validation, tax grouping and the *)
(* monetary amounts of the generated document.                             *)
(*                                                                         *)
(* JavaScript numbers are IEEE-754 binary64 values.  They are modelled     *)
(* exactly: a finite number is sign * m * 2^e with a 53-bit significand m  *)
(* held as a little-endian sequence of 15-bit limbs (TLC's integers are    *)
(* 32 bits wide), and every arithmetic operation rounds to nearest, ties   *)
(* to even, as the hardware does.  Number.prototype.toFixed(2) and         *)
(* parseFloat are computed on the exact binary value.                      *)
(***************************************************************************)
EXTENDS Integers, Sequences, FiniteSets, TLC

\* ---------------------------------------------------------------------
\* Natural numbers of arbitrary size: little-endian limbs, no high zeros
\* ---------------------------------------------------------------------

LimbBits == 15

LimbBase == 32768

SignificandBits == 53

RECURSIVE BigTrim(_)
BigTrim(a) ==
  IF a = <<>> THEN <<>>
  ELSE IF a[Len(a)] = 0 THEN BigTrim(SubSeq(a, 1, Len(a) - 1))
  ELSE a

RECURSIVE BigFromNat(_)
BigFromNat(n) ==
  IF n = 0 THEN <<>> ELSE <<n % LimbBase>> \o BigFromNat(n \div LimbBase)

RECURSIVE BigToNat(_)
BigToNat(a) ==
  IF a = <<>> THEN 0 ELSE a[1] + LimbBase * BigToNat(Tail(a))

RECURSIVE BigAddC(_, _, _)
BigAddC(a, b, c) ==
  IF a = <<>> /\ b = <<>> THEN (IF c = 0 THEN <<>> ELSE <<c>>)
  ELSE LET x == IF a = <<>> THEN 0 ELSE a[1]
           y == IF b = <<>> THEN 0 ELSE b[1]
           s == x + y + c
       IN <<s % LimbBase>> \o
          BigAddC(IF a = <<>> THEN <<>> ELSE Tail(a),
                  IF b = <<>> THEN <<>> ELSE Tail(b),
                  s \div LimbBase)

BigAdd(a, b) == BigAddC(a, b, 0)

RECURSIVE BigMulSmallC(_, _, _)
BigMulSmallC(a, k, c) ==
  IF a = <<>> THEN BigFromNat(c)
  ELSE LET p == a[1] * k + c
       IN <<p % LimbBase>> \o BigMulSmallC(Tail(a), k, p \div LimbBase)

\* a * k for 0 <= k <= LimbBase
BigMulSmall(a, k) == BigTrim(BigMulSmallC(a, k, 0))

RECURSIVE BigMul(_, _)
BigMul(a, b) ==
  IF a = <<>> \/ b = <<>> THEN <<>>
  ELSE LET rest == BigMul(a, Tail(b))
       IN BigAdd(BigMulSmall(a, b[1]),
                 IF rest = <<>> THEN <<>> ELSE <<0>> \o rest)

\* floor(a / k) and a mod k for 0 < k < 2 * LimbBase, from the high limb down
RECURSIVE BigDivSmallR(_, _, _)
BigDivSmallR(a, k, r) ==
  IF a = <<>> THEN [q |-> <<>>, r |-> r]
  ELSE LET cur  == r * LimbBase + a[Len(a)]
           rest == BigDivSmallR(SubSeq(a, 1, Len(a) - 1), k, cur % k)
       IN [q |-> rest.q \o <<cur \div k>>, r |-> rest.r]

BigDivSmall(a, k) ==
  LET d == BigDivSmallR(a, k, 0) IN [q |-> BigTrim(d.q), r |-> d.r]

\* -1, 0, 1 as a < b, a = b, a > b
RECURSIVE BigCmp(_, _)
BigCmp(a, b) ==
  IF Len(a) # Len(b) THEN (IF Len(a) < Len(b) THEN -1 ELSE 1)
  ELSE IF a = <<>> THEN 0
  ELSE IF a[Len(a)] # b[Len(b)] THEN (IF a[Len(a)] < b[Len(b)] THEN -1 ELSE 1)
  ELSE BigCmp(SubSeq(a, 1, Len(a) - 1), SubSeq(b, 1, Len(b) - 1))

RECURSIVE NatBitLen(_)
NatBitLen(n) == IF n = 0 THEN 0 ELSE 1 + NatBitLen(n \div 2)

BigBitLen(a) ==
  IF a = <<>> THEN 0 ELSE LimbBits * (Len(a) - 1) + NatBitLen(a[Len(a)])

BigZeros(n) == [i \in 1..n |-> 0]

\* a * 2^s
BigShl(a, s) ==
  IF a = <<>> THEN <<>>
  ELSE BigZeros(s \div LimbBits) \o BigMulSmall(a, 2^(s % LimbBits))

\* floor(a / 2^s)
BigShr(a, s) ==
  IF s \div LimbBits >= Len(a) THEN <<>>
  ELSE BigDivSmall(SubSeq(a, (s \div LimbBits) + 1, Len(a)), 2^(s % LimbBits)).q

\* a mod 2^s
BigLow(a, s) ==
  IF s \div LimbBits >= Len(a) THEN a
  ELSE BigTrim(SubSeq(a, 1, s \div LimbBits) \o
               <<a[(s \div LimbBits) + 1] % (2^(s % LimbBits))>>)

BigOdd(a) == a # <<>> /\ a[1] % 2 = 1

\* ---------------------------------------------------------------------
\* JavaScript numbers (IEEE-754 binary64)
\* ---------------------------------------------------------------------
\* A finite number is (-1)^neg * m * 2^e with m = <<>> (zero, e = 0) or
\* 2^52 <= m < 2^53.  NaN has nan = TRUE.  Subnormals, infinities and
\* overflow lie outside the magnitudes the model draws.

NumZero == [nan |-> FALSE, neg |-> FALSE, m |-> <<>>, e |-> 0]

NumNaN == [nan |-> TRUE, neg |-> FALSE, m |-> <<>>, e |-> 0]

Finite(m, e) == [nan |-> FALSE, neg |-> FALSE, m |-> m, e |-> e]

\* q * 2^e, where q after the rounding increment may have one bit too many
Renormalize(q, e) ==
  IF BigBitLen(q) > SignificandBits THEN Finite(BigShr(q, 1), e + 1) ELSE Finite(q, e)

\* q is the kept part, c compares the dropped part with one half (-1, 0, 1)
RoundKept(q, c, sticky, e) ==
  Renormalize(IF c > 0 \/ (c = 0 /\ (sticky \/ BigOdd(q))) THEN BigAdd(q, <<1>>) ELSE q, e)

\* n with s low bits to drop (s > 0) or 0 - s zero bits to add
RoundShifted(n, e, sticky, s) ==
  IF s <= 0 THEN Finite(BigShl(n, 0 - s), e + s)
  ELSE RoundKept(BigShr(n, s), BigCmp(BigLow(n, s), BigShl(<<1>>, s - 1)), sticky, e + s)

\* The binary64 nearest to (n + t) * 2^e, where 0 <= t < 1 and t > 0 iff
\* sticky; ties to even.  With sticky, n has more than SignificandBits bits.
RoundNearestEven(n, e, sticky) ==
  IF n = <<>> THEN NumZero
  ELSE RoundShifted(n, e, sticky, BigBitLen(n) - SignificandBits)

\* floor(a / (d[1] * ... * d[n])) with r = TRUE iff the division is inexact
RECURSIVE BigDivFactors(_, _, _)
BigDivFactorsNext(one, d, inexact) == BigDivFactors(one.q, d, inexact \/ one.r # 0)

BigDivFactors(a, d, inexact) ==
  IF d = <<>> THEN [q |-> a, r |-> inexact]
  ELSE BigDivFactorsNext(BigDivSmall(a, d[1]), Tail(d), inexact)

RoundQuotient(dv, e) == RoundNearestEven(dv.q, e, dv.r)

\* (p * 2^k / (d[1] * ... * d[n])) * 2^(e - k), the quotient long enough to round
RatioShifted(p, d, e, k) ==
  RoundQuotient(BigDivFactors(BigShl(p, IF k > 0 THEN k ELSE 0), d, FALSE),
                e - (IF k > 0 THEN k ELSE 0))

\* The binary64 nearest to (p / (d[1] * ... * d[n])) * 2^e, each d[i] < 2^16
NearestOfRatio(p, d, e) ==
  RatioShifted(p, d, e, SignificandBits + 2 + 16 * Len(d) - BigBitLen(p))

Num10000 == 10000

RECURSIVE Pow10Factors(_)
Pow10Factors(dec) ==
  IF dec = 0 THEN <<>>
  ELSE IF dec >= 4 THEN <<Num10000>> \o Pow10Factors(dec - 4)
  ELSE <<10^dec>>

WithSign(x, neg) == [x EXCEPT !.neg = neg]

\* The value of the numeric literal n / 10^dec (sign neg): the source text
\* of a number, converted as the language converts a literal.
NumLit(neg, n, dec) ==
  WithSign(NearestOfRatio(BigFromNat(n), Pow10Factors(dec), 0), neg /\ n # 0)

NumIsZero(x) == ~x.nan /\ x.m = <<>>

\* x * y for x, y >= 0
NumMul(x, y) ==
  IF x.nan \/ y.nan THEN NumNaN
  ELSE RoundNearestEven(BigMul(x.m, y.m), x.e + y.e, FALSE)

\* x + y for x, y >= 0
NumAdd(x, y) ==
  IF x.nan \/ y.nan THEN NumNaN
  ELSE IF NumIsZero(x) THEN y
  ELSE IF NumIsZero(y) THEN x
  ELSE LET e == IF x.e < y.e THEN x.e ELSE y.e
       IN RoundNearestEven(BigAdd(BigShl(x.m, x.e - e), BigShl(y.m, y.e - e)), e, FALSE)

\* x / k for x >= 0 and an integer 0 < k < 2^16
NumDivInt(x, k) ==
  IF x.nan THEN NumNaN ELSE NearestOfRatio(x.m, <<k>>, x.e)

\* x < y, x > y on finite numbers; every comparison with NaN is false
NumLess(x, y) ==
  /\ ~x.nan /\ ~y.nan
  /\ IF NumIsZero(x) THEN ~NumIsZero(y) /\ ~y.neg
     ELSE IF NumIsZero(y) THEN x.neg
     ELSE IF x.neg # y.neg THEN x.neg
     ELSE LET lt == x.e + BigBitLen(x.m) < y.e + BigBitLen(y.m)
                    \/ (x.e = y.e /\ BigCmp(x.m, y.m) < 0)
              gt == x.e + BigBitLen(x.m) > y.e + BigBitLen(y.m)
                    \/ (x.e = y.e /\ BigCmp(x.m, y.m) > 0)
          IN IF x.neg THEN gt ELSE lt

NumLessEq(x, y) ==
  ~x.nan /\ ~y.nan /\ ~NumLess(y, x)

\* A decimal text with two fraction digits, "c/100", or the text "NaN".
TextNaN == [nan |-> TRUE, cents |-> 0]

RECURSIVE BigMulFactors(_, _)
BigMulFactors(a, d) ==
  IF d = <<>> THEN a ELSE BigMulFactors(BigMulSmall(a, d[1]), Tail(d))

\* For finite x >= 0 the integer n for which n / 10^dec - x is as close to
\* zero as possible, the larger n on a tie: floor(x * 10^dec + 1/2), exactly.
ScaledRound(x, dec) ==
  IF NumIsZero(x) THEN 0
  ELSE BigToNat(
    IF x.e >= 0 THEN BigShl(BigMulFactors(x.m, Pow10Factors(dec)), x.e)
    ELSE BigShr(BigAdd(BigMulFactors(BigMulSmall(x.m, 2), Pow10Factors(dec)),
                       BigShl(<<1>>, 0 - x.e)),
                1 - x.e))

\* Number.prototype.toFixed(2) for x >= 0 or NaN
ToFixed2(x) ==
  IF x.nan THEN TextNaN ELSE [nan |-> FALSE, cents |-> ScaledRound(x, 2)]

\* parseFloat of a text produced by toFixed(2)
ParseFloat(t) ==
  IF t.nan THEN NumNaN ELSE NearestOfRatio(BigFromNat(t.cents), <<100>>, 0)

\* ---------------------------------------------------------------------
\* JavaScript values of the invoice input
\* ---------------------------------------------------------------------
\* A string is a sequence of characters; an optional string is undefined
\* (def = FALSE) or a string.

Undefined == [def |-> FALSE, s |-> <<>>]

Str(s) == [def |-> TRUE, s |-> s]

IsWhiteSpace(c) == c \in {" ", "\t", "\n"}

RECURSIVE TrimStart(_)
TrimStart(s) ==
  IF s # <<>> /\ IsWhiteSpace(Head(s)) THEN TrimStart(Tail(s)) ELSE s

RECURSIVE TrimEnd(_)
TrimEnd(s) ==
  IF s # <<>> /\ IsWhiteSpace(s[Len(s)]) THEN TrimEnd(SubSeq(s, 1, Len(s) - 1)) ELSE s

\* String.prototype.trim
Trim(s) == TrimEnd(TrimStart(s))

\* !x?.trim() : undefined, empty or white space only
Blank(x) == ~x.def \/ Trim(x.s) = <<>>

\* A value of a numeric field: t is the result of typeof
JsUndefined == [t |-> "undefined", n |-> NumZero]

JsNumber(n) == [t |-> "number", n |-> n]

JsString == [t |-> "string", n |-> NumZero]

\* x || 0 on a numeric field that passed validation: undefined, 0 and NaN are falsy
OrZero(x) ==
  IF x.t # "number" \/ x.n.nan \/ NumIsZero(x.n) THEN NumZero ELSE x.n

DigitChar(d) == <<"0", "1", "2", "3", "4", "5", "6", "7", "8", "9">>[d + 1]

RECURSIVE Digits(_)
Digits(n) ==
  IF n < 10 THEN <<DigitChar(n)>> ELSE Digits(n \div 10) \o <<DigitChar(n % 10)>>

\* The last w decimal digits of n, with leading zeros
RECURSIVE FractionDigits(_, _)
FractionDigits(n, w) ==
  IF w = 0 THEN <<>> ELSE FractionDigits(n \div 10, w - 1) \o <<DigitChar(n % 10)>>

\* Fraction digits the search of the shortest decimal goes up to
MaxFractionDigits == 6

\* The shortest decimal n / 10^dec that converts back to x
RECURSIVE ShortestDecimal(_, _)
ShortestDecimalTry(x, dec, n) ==
  IF dec >= MaxFractionDigits \/ NumLit(FALSE, n, dec) = x
    THEN [n |-> n, dec |-> dec]
    ELSE ShortestDecimal(x, dec + 1)

ShortestDecimal(x, dec) == ShortestDecimalTry(x, dec, ScaledRound(x, dec))

FormatDecimal(d) ==
  IF d.dec = 0 THEN Digits(d.n)
  ELSE Digits(d.n \div 10^d.dec) \o <<".">> \o FractionDigits(d.n % 10^d.dec, d.dec)

\* Number::toString (as in a template literal) of a finite x >= 0 below 10^21
NumToString(x) == FormatDecimal(ShortestDecimal(x, 0))

\* ---------------------------------------------------------------------
\* src/src/ubl/InvoiceBuilder.ts
\* ---------------------------------------------------------------------

\* Variant: the unit price is not rounded before the multiplication
calculateLineExtensionOfRawPrice(line) ==
  ParseFloat(ToFixed2(NumMul(line.quantity.n, line.unitPrice.n)))

calculateLineExtension(line) ==
  LET roundedUnitPrice == ParseFloat(ToFixed2(line.unitPrice.n))
  IN ParseFloat(ToFixed2(NumMul(line.quantity.n, roundedUnitPrice)))

\* const taxAmount = parseFloat((lineExtension * (taxPercent / 100)).toFixed(2))
lineTaxAmount(lineExtension, taxPercent) ==
  ParseFloat(ToFixed2(NumMul(lineExtension, NumDivInt(taxPercent, 100))))

\* taxPercent > 0
IsPositive(x) == ~x.nan /\ ~x.neg /\ ~NumIsZero(x)

\* Variant: the percent is looked at before the supplier's VAT status
groupCategoryIdByPercent(isSupplierVatPayer, taxPercent) ==
  IF IsPositive(taxPercent) THEN "S"
  ELSE IF ~isSupplierVatPayer THEN "O"
  ELSE "Z"

\* The tax category of a line in groupLinesByTax
groupCategoryId(isSupplierVatPayer, taxPercent) ==
  IF ~isSupplierVatPayer THEN "O"
  ELSE IF IsPositive(taxPercent) THEN "S"
  ELSE "Z"

groupExemptionReasonCode(isSupplierVatPayer) ==
  IF ~isSupplierVatPayer THEN Str(<<"V", "A", "T", "E", "X", "-", "E", "U", "-", "O">>)
  ELSE Undefined

\* Variant: the key is the category alone
groupKeyOfCategory(categoryId, taxPercent) == <<categoryId, "-">>

\* `${categoryId}-${taxPercent}`
groupKey(categoryId, taxPercent) == <<categoryId, "-">> \o NumToString(taxPercent)

\* A Map is the sequence of its entries in insertion order
MapHas(map, key) == \E i \in 1..Len(map) : map[i].key = key

MapIndex(map, key) == CHOOSE i \in 1..Len(map) : map[i].key = key

\* Variant: the running sums are not rounded after the addition
groupAddUnrounded(taxGroups, key, group) ==
  IF MapHas(taxGroups, key)
    THEN [taxGroups EXCEPT ![MapIndex(taxGroups, key)].value =
           [@ EXCEPT
              !.taxableAmount = NumAdd(@, group.taxableAmount),
              !.taxAmount = NumAdd(@, group.taxAmount)]]
    ELSE Append(taxGroups, [key |-> key, value |-> group])

\* Variant: an updated group is deleted and set again, so it moves to the end
groupAddReinserted(taxGroups, key, group) ==
  IF MapHas(taxGroups, key)
    THEN Append(
           SelectSeq(taxGroups, LAMBDA entry : entry.key # key),
           [key |-> key,
            value |-> [taxGroups[MapIndex(taxGroups, key)].value EXCEPT
              !.taxableAmount = ParseFloat(ToFixed2(NumAdd(@, group.taxableAmount))),
              !.taxAmount = ParseFloat(ToFixed2(NumAdd(@, group.taxAmount)))]])
    ELSE Append(taxGroups, [key |-> key, value |-> group])

\* taxGroups.has(key) ? the group updated : taxGroups.set(key, {...})
groupAdd(taxGroups, key, group) ==
  IF MapHas(taxGroups, key)
    THEN [taxGroups EXCEPT ![MapIndex(taxGroups, key)].value =
           [@ EXCEPT
              !.taxableAmount = ParseFloat(ToFixed2(NumAdd(@, group.taxableAmount))),
              !.taxAmount = ParseFloat(ToFixed2(NumAdd(@, group.taxAmount)))]]
    ELSE Append(taxGroups, [key |-> key, value |-> group])

groupOfLine(taxPercent, lineExtension, categoryId, exemptionReasonCode) ==
  [categoryId |-> categoryId,
   percent |-> taxPercent,
   taxableAmount |-> lineExtension,
   taxAmount |-> lineTaxAmount(lineExtension, taxPercent),
   exemptionReasonCode |-> exemptionReasonCode]

groupLineOf(taxGroups, taxPercent, lineExtension, categoryId, exemptionReasonCode) ==
  groupAdd(taxGroups, groupKey(categoryId, taxPercent),
           groupOfLine(taxPercent, lineExtension, categoryId, exemptionReasonCode))

\* The body of lines.forEach in groupLinesByTax: one line added to the map
groupLine(taxGroups, line, isSupplierVatPayer) ==
  groupLineOf(taxGroups, OrZero(line.taxPercent), calculateLineExtension(line),
              groupCategoryId(isSupplierVatPayer, OrZero(line.taxPercent)),
              groupExemptionReasonCode(isSupplierVatPayer))

\* Array.from(taxGroups.values())
MapValues(map) == [i \in 1..Len(map) |-> map[i].value]

\* An error thrown: its class, its message, and for a line error the number
\* the message gives after "Line " (0 otherwise).  NoError: nothing was thrown.
NoError == [kind |-> "none", msg |-> <<>>, line |-> 0]

ValidationError(msg) == [kind |-> "AnafValidationError", msg |-> msg, line |-> 0]

LineError(n, msg) == [kind |-> "AnafValidationError", msg |-> msg, line |-> n]

\* The TypeError of a call of a method the value does not have
TypeError(msg) == [kind |-> "TypeError", msg |-> msg, line |-> 0]

validateAddress(address, role) ==
  IF Blank(address.street) THEN ValidationError(<<role, "street address is required">>)
  ELSE IF Blank(address.city) THEN ValidationError(<<role, "city is required">>)
  ELSE IF Blank(address.postalZone) THEN ValidationError(<<role, "postal zone is required">>)
  ELSE NoError

validateParty(party, role) ==
  IF Blank(party.registrationName)
    THEN ValidationError(<<role, "registration name is required">>)
  ELSE IF Blank(party.companyId) THEN ValidationError(<<role, "company ID is required">>)
  ELSE IF ~party.address.present THEN ValidationError(<<role, "address is required">>)
  ELSE validateAddress(party.address, role)

\* index is the 0-based forEach index
validateLine(line, index) ==
  IF Blank(line.name) THEN LineError(index + 1, <<"Line", "Name is required">>)
  ELSE IF line.quantity.t # "number" \/ NumLessEq(line.quantity.n, NumZero)
    THEN LineError(index + 1, <<"Line", "Quantity must be a positive number">>)
  ELSE IF line.unitPrice.t # "number" \/ NumLess(line.unitPrice.n, NumZero)
    THEN LineError(index + 1, <<"Line", "Unit price must be a non-negative number">>)
  ELSE IF /\ line.taxPercent.t # "undefined"
          /\ \/ line.taxPercent.t # "number"
             \/ NumLess(line.taxPercent.n, NumZero)
             \/ NumLess(NumLit(FALSE, 100, 0), line.taxPercent.n)
    THEN LineError(index + 1, <<"Line", "Tax percent must be between 0 and 100">>)
  ELSE NoError

\* input.lines.forEach((line, index) => validateLine(line, index)) from
\* position i on: the first error thrown
RECURSIVE validateLines(_, _)
validateLinesNext(lines, i, err) ==
  IF err # NoError THEN err ELSE validateLines(lines, i + 1)

validateLines(lines, i) ==
  IF i > Len(lines) THEN NoError
  ELSE validateLinesNext(lines, i, validateLine(lines[i], i - 1))

validateInvoiceInput(in) ==
  IF ~in.present THEN ValidationError(<<"Invoice input data is required">>)
  ELSE IF Blank(in.invoiceNumber) THEN ValidationError(<<"Invoice number is required">>)
  ELSE IF ~in.issueDate THEN ValidationError(<<"Issue date is required">>)
  ELSE IF ~in.supplier.present THEN ValidationError(<<"Supplier information is required">>)
  ELSE IF validateParty(in.supplier, "Supplier") # NoError
    THEN validateParty(in.supplier, "Supplier")
  ELSE IF ~in.customer.present THEN ValidationError(<<"Customer information is required">>)
  ELSE IF validateParty(in.customer, "Customer") # NoError
    THEN validateParty(in.customer, "Customer")
  ELSE IF ~in.lines.def THEN ValidationError(<<"Invoice lines array is required">>)
  ELSE IF Len(in.lines.items) > 0 THEN validateLines(in.lines.items, 1)
  ELSE NoError

\* The tax category of a line in the InvoiceLine element of buildInvoiceXml
lineTaxCategory(isSupplierVatPayer, taxPercent) ==
  IF ~isSupplierVatPayer THEN "O"
  ELSE IF IsPositive(taxPercent) THEN "S"
  ELSE "Z"

\* taxGroups.reduce((sum, group) => sum + group.<field>, 0)
RECURSIVE reduceSum(_, _)
reduceSum(amounts, sum) ==
  IF amounts = <<>> THEN sum ELSE reduceSum(Tail(amounts), NumAdd(sum, Head(amounts)))

TextZero == [nan |-> FALSE, cents |-> 0]

\* if (group.exemptionReasonCode)
Truthy(x) == x.def /\ x.s # <<>>

\* Variant: no default element when there is no group
taxSubtotalsOfGroupsOnly(groups) ==
  [i \in 1..Len(groups) |->
     [taxableAmount |-> ToFixed2(groups[i].taxableAmount),
      taxAmount |-> ToFixed2(groups[i].taxAmount),
      categoryId |-> groups[i].categoryId,
      percent |-> ToFixed2(groups[i].percent),
      exemptionReasonCode |->
        IF Truthy(groups[i].exemptionReasonCode)
          THEN groups[i].exemptionReasonCode ELSE Undefined]]

\* One cac:TaxSubtotal element per tax group, or the default one
taxSubtotals(groups) ==
  IF Len(groups) > 0
    THEN [i \in 1..Len(groups) |->
           [taxableAmount |-> ToFixed2(groups[i].taxableAmount),
            taxAmount |-> ToFixed2(groups[i].taxAmount),
            categoryId |-> groups[i].categoryId,
            percent |-> ToFixed2(groups[i].percent),
            exemptionReasonCode |->
              IF Truthy(groups[i].exemptionReasonCode)
                THEN groups[i].exemptionReasonCode ELSE Undefined]]
    ELSE << [taxableAmount |-> TextZero, taxAmount |-> TextZero, categoryId |-> "S",
             percent |-> TextZero, exemptionReasonCode |-> Undefined] >>

\* A value of the id of a line: absent, a string, or a number n >= 0
NoId == [t |-> "undefined", s |-> <<>>, n |-> 0]

IdString(s) == [t |-> "string", s |-> s, n |-> 0]

IdNumber(n) == [t |-> "number", s |-> <<>>, n |-> n]

\* line.id?.toString()
idToString(id) ==
  IF id.t = "undefined" THEN Undefined
  ELSE IF id.t = "string" THEN Str(id.s) ELSE Str(Digits(id.n))

\* Variant: every line is numbered by its position
lineIdOfPosition(line, index) == Digits(index + 1)

\* const lineId = line.id?.toString() || (index + 1).toString()
lineId(line, index) ==
  IF Truthy(idToString(line.id)) THEN idToString(line.id).s ELSE Digits(index + 1)

\* Variant: the line's amount is quantity times the unit price as given
invoiceLineOfRawPrice(line, index, taxPercent, isSupplierVatPayer) ==
  [id |-> lineId(line, index),
   name |-> line.name.s,
   lineExtensionAmount |-> ToFixed2(NumMul(line.quantity.n, line.unitPrice.n)),
   categoryId |-> lineTaxCategory(isSupplierVatPayer, taxPercent),
   percent |-> ToFixed2(taxPercent),
   priceAmount |-> ToFixed2(ParseFloat(ToFixed2(line.unitPrice.n)))]

\* One cac:InvoiceLine element
invoiceLine(line, index, taxPercent, isSupplierVatPayer) ==
  [id |-> lineId(line, index),
   name |-> line.name.s,
   lineExtensionAmount |-> ToFixed2(calculateLineExtension(line)),
   categoryId |-> lineTaxCategory(isSupplierVatPayer, taxPercent),
   percent |-> ToFixed2(taxPercent),
   priceAmount |-> ToFixed2(ParseFloat(ToFixed2(line.unitPrice.n)))]

\* One cac:InvoiceLine element per input line; forEach counts index from 0
invoiceLines(lines, isSupplierVatPayer) ==
  [i \in 1..Len(lines) |->
     invoiceLine(lines[i], i - 1, OrZero(lines[i].taxPercent), isSupplierVatPayer)]

\* Variant: the grand total leaves the tax out
totalsOfTaxExclusive(totalTaxableAmount, totalTaxAmount) ==
  [totalTaxableAmount |-> totalTaxableAmount,
   totalTaxAmount |-> totalTaxAmount,
   grandTotal |-> ParseFloat(ToFixed2(totalTaxableAmount))]

totalsOf(totalTaxableAmount, totalTaxAmount) ==
  [totalTaxableAmount |-> totalTaxableAmount,
   totalTaxAmount |-> totalTaxAmount,
   grandTotal |-> ParseFloat(ToFixed2(NumAdd(totalTaxableAmount, totalTaxAmount)))]

\* ---------------------------------------------------------------------
\* The address normalizer: sanitizeCounty, sanitizeBucharestSector,
\* isBucharest. A text is a sequence of characters; a letter with a
\* diacritic is written as its base letter, a hyphen and the name of the
\* mark ("s-comma", "S-cedilla", "a-breve", "a-circumflex", "i-circumflex")
\* ---------------------------------------------------------------------

\* The characters of a text without diacritics
Chars(s) == [i \in 1..Len(s) |-> SubSeq(s, i, i)]

UpperCase == Chars("ABCDEFGHIJKLMNOPQRSTUVWXYZ")

LowerCase == Chars("abcdefghijklmnopqrstuvwxyz")

\* Lower-casing of one character, the mark of a diacritic kept
toLowerCase(c) ==
  LET letter == SubSeq(c, 1, 1)
  IN (IF \E i \in 1..26 : UpperCase[i] = letter
        THEN LowerCase[CHOOSE i \in 1..26 : UpperCase[i] = letter]
        ELSE letter) \o SubSeq(c, 2, Len(c))

toUpperCase(c) ==
  LET letter == SubSeq(c, 1, 1)
  IN (IF \E i \in 1..26 : LowerCase[i] = letter
        THEN UpperCase[CHOOSE i \in 1..26 : LowerCase[i] = letter]
        ELSE letter) \o SubSeq(c, 2, Len(c))

\* Stripping of the diacritic of one character: the base letter
stripDiacritics(c) == SubSeq(c, 1, 1)

\* The characters collapsed to one space
IsSeparator(c) == c \in {"-", "_", ".", ","} \/ IsWhiteSpace(c)

\* The words of a text: lower-cased, diacritics stripped, cut at the
\* separators (joined by one space they are the normalized text)
RECURSIVE normalizedWords(_, _)
normalizedWords(s, word) ==
  IF s = <<>> THEN (IF word = "" THEN <<>> ELSE <<word>>)
  ELSE IF IsSeparator(Head(s))
    THEN (IF word = "" THEN <<>> ELSE <<word>>) \o normalizedWords(Tail(s), "")
    ELSE normalizedWords(Tail(s), word \o stripDiacritics(toLowerCase(Head(s))))

\* The table of the counties: canonical name, alternate spellings and typos
COUNTY_CODES ==
  << <<"RO-AB", <<"alba">>>>, <<"RO-AR", <<"arad">>>>, <<"RO-AG", <<"arges">>>>,
     <<"RO-BC", <<"bacau">>>>, <<"RO-BH", <<"bihor">>>>,
     <<"RO-BN", <<"bistrita", "nasaud">>>>, <<"RO-BT", <<"botosani">>>>,
     <<"RO-BV", <<"brasov">>>>, <<"RO-BR", <<"braila">>>>, <<"RO-BZ", <<"buzau">>>>,
     <<"RO-CS", <<"caras", "severin">>>>, <<"RO-CL", <<"calarasi">>>>,
     <<"RO-CJ", <<"cluj">>>>, <<"RO-CT", <<"constanta">>>>, <<"RO-CV", <<"covasna">>>>,
     <<"RO-DB", <<"dambovita">>>>, <<"RO-DB", <<"dimbovita">>>>,
     <<"RO-DJ", <<"dolj">>>>, <<"RO-GL", <<"galati">>>>, <<"RO-GR", <<"giurgiu">>>>,
     <<"RO-GJ", <<"gorj">>>>, <<"RO-HR", <<"harghita">>>>, <<"RO-HD", <<"hunedoara">>>>,
     <<"RO-IL", <<"ialomita">>>>, <<"RO-IS", <<"iasi">>>>, <<"RO-IF", <<"ilfov">>>>,
     <<"RO-MM", <<"maramures">>>>, <<"RO-MH", <<"mehedinti">>>>, <<"RO-MS", <<"mures">>>>,
     <<"RO-NT", <<"neamt">>>>, <<"RO-OT", <<"olt">>>>, <<"RO-PH", <<"prahova">>>>,
     <<"RO-SM", <<"satu", "mare">>>>, <<"RO-SJ", <<"salaj">>>>, <<"RO-SB", <<"sibiu">>>>,
     <<"RO-SV", <<"suceava">>>>, <<"RO-TR", <<"teleorman">>>>, <<"RO-TM", <<"timis">>>>,
     <<"RO-TL", <<"tulcea">>>>, <<"RO-VS", <<"vaslui">>>>, <<"RO-VL", <<"valcea">>>>,
     <<"RO-VL", <<"vilcea">>>>, <<"RO-VN", <<"vrancea">>>>,
     <<"RO-B", <<"bucuresti">>>>, <<"RO-B", <<"buc">>>> >>

\* The administrative qualifier words
ADMIN_WORDS ==
  {"judetul", "judet", "jud", "municipiul", "municipiu", "mun", "orasul", "oras",
   "comuna", "com"}

\* The code of a normalized name, null when the table has no such name
lookupCounty(words) ==
  IF \E i \in 1..Len(COUNTY_CODES) : COUNTY_CODES[i][2] = words
    THEN Str(Chars(COUNTY_CODES[CHOOSE i \in 1..Len(COUNTY_CODES) :
                                  COUNTY_CODES[i][2] = words][1]))
    ELSE Undefined

\* The words without the qualifier words at their start and at their end
RECURSIVE stripAdminWords(_)
stripAdminWords(words) ==
  IF words # <<>> /\ Head(words) \in ADMIN_WORDS THEN stripAdminWords(Tail(words))
  ELSE IF words # <<>> /\ words[Len(words)] \in ADMIN_WORDS
    THEN stripAdminWords(SubSeq(words, 1, Len(words) - 1))
    ELSE words

\* Variant: no second lookup
sanitizeCountyDirectOnly(county) ==
  IF Blank(county) THEN Undefined ELSE lookupCounty(normalizedWords(county.s, ""))

\* sanitizeCounty(input): the code of the county, or null
sanitizeCounty(county) ==
  IF Blank(county) THEN Undefined
  ELSE LET words == normalizedWords(county.s, "")
       IN IF lookupCounty(words).def THEN lookupCounty(words)
          ELSE lookupCounty(stripAdminWords(words))

SECTOR_WORDS == {"sectorul", "sector", "sect", "s"}

IsDigits(w) == \A i \in 1..Len(w) : SubSeq(w, i, i) \in {DigitChar(d) : d \in 0..9}

\* The number written by one or two digits
RECURSIVE sectorNumber(_)
sectorNumber(w) ==
  IF w = "" THEN 0
  ELSE 10 * sectorNumber(SubSeq(w, 1, Len(w) - 1))
         + (CHOOSE d \in 0..9 : DigitChar(d) = SubSeq(w, Len(w), Len(w)))

\* The number of the sector token that starts at word i, 0 when none starts
\* there: a sector word and one or two digits, in one word or in two
sectorTokenAt(words, i) ==
  LET w == words[i]
      glued == {k \in SECTOR_WORDS :
                  /\ Len(w) - Len(k) \in 1..2
                  /\ SubSeq(w, 1, Len(k)) = k
                  /\ IsDigits(SubSeq(w, Len(k) + 1, Len(w)))}
  IN IF glued # {}
       THEN sectorNumber(SubSeq(w, Len(CHOOSE k \in glued : TRUE) + 1, Len(w)))
     ELSE IF /\ w \in SECTOR_WORDS /\ i < Len(words)
             /\ Len(words[i + 1]) \in 1..2 /\ IsDigits(words[i + 1])
       THEN sectorNumber(words[i + 1])
       ELSE 0

\* Variant: the number of the token is not checked
sanitizeBucharestSectorAnyNumber(city) ==
  IF Blank(city) THEN Undefined
  ELSE LET words == normalizedWords(city.s, "")
           found == {i \in 1..Len(words) : sectorTokenAt(words, i) > 0}
       IN IF found = {} THEN Undefined
          ELSE Str(Chars("SECTOR") \o
                   Digits(sectorTokenAt(words, CHOOSE i \in found : \A j \in found : i <= j)))

\* sanitizeBucharestSector(input): SECTOR1 .. SECTOR6 of the first valid
\* sector token, or null
sanitizeBucharestSector(city) ==
  IF Blank(city) THEN Undefined
  ELSE LET words == normalizedWords(city.s, "")
           valid == {i \in 1..Len(words) : sectorTokenAt(words, i) \in 1..6}
       IN IF valid = {} THEN Undefined
          ELSE Str(Chars("SECTOR") \o
                   Digits(sectorTokenAt(words, CHOOSE i \in valid : \A j \in valid : i <= j)))

\* isBucharest(countyCode): trimmed and compared with RO-B, whatever the case
isBucharest(countyCode) ==
  /\ countyCode.def
  /\ [i \in 1..Len(Trim(countyCode.s)) |-> toUpperCase(Trim(countyCode.s)[i])] = Chars("RO-B")

\* A text without diacritics
Text(s) == Str(Chars(s))

\* Iasi, Dambovita, Timis, Bucuresti and Judetul written with diacritics
Iasi == Str(Chars("Ia") \o <<"s-comma">> \o Chars("i"))

Dambovita == Str(Chars("D") \o <<"a-circumflex">> \o Chars("mbovi") \o <<"t-comma", "a">>)

Dimbovita == Str(Chars("D") \o <<"i-circumflex">> \o Chars("mbovi") \o <<"t-cedilla", "a">>)

Timis(mark) == Str(Chars("Timi") \o <<"s-" \o mark>>)

Valcea == Str(Chars("V") \o <<"a-circumflex">> \o Chars("lcea"))

Bucuresti(before, mark) == Str(Chars(before) \o Chars("Bucure") \o <<"s-" \o mark>> \o Chars("ti"))

JudetulCluj == Str(Chars("Jude") \o <<"t-comma">> \o Chars("ul Cluj"))

\* x || '' on a text or null
OrEmpty(x) == IF Truthy(x) THEN x.s ELSE <<>>

\* Variant: the county is emitted as it was given
partyCountyAsGiven(address) == address.county

\* const county = sanitizeCounty(address.county)
partyCounty(address) == sanitizeCounty(address.county)

\* Variant: the city is emitted as it was given
partyCityAsGiven(address) == address.city

\* const city = isBucharest(county) ? sanitizeBucharestSector(address.city) : address.city
partyCity(address) ==
  IF isBucharest(partyCounty(address))
    THEN sanitizeBucharestSector(address.city)
    ELSE address.city

\* The cbc:CityName and cbc:CountrySubentity of cac:PostalAddress
buildPartyXml(party) ==
  [cityName |-> OrEmpty(partyCity(party.address)),
   countrySubentity |-> OrEmpty(partyCounty(party.address))]

NoPartyXml == [cityName |-> <<>>, countrySubentity |-> <<>>]

NoDocument ==
  [produced |-> FALSE, supplier |-> NoPartyXml, customer |-> NoPartyXml,
   taxAmount |-> TextZero, subtotals |-> <<>>,
   lineExtensionAmount |-> TextZero, taxExclusiveAmount |-> TextZero,
   taxInclusiveAmount |-> TextZero, payableAmount |-> TextZero, lines |-> <<>>]

NoTotals == [totalTaxableAmount |-> NumZero, totalTaxAmount |-> NumZero, grandTotal |-> NumZero]

\* ---------------------------------------------------------------------
\* The inputs the model draws
\* ---------------------------------------------------------------------

OkText == Str(<<"A">>)

BlankTexts == {Undefined, Str(<<>>), Str(<<" ">>)}

OkAddress == [present |-> TRUE, street |-> OkText, city |-> OkText, postalZone |-> OkText,
              county |-> Undefined]

NoAddress == [present |-> FALSE, street |-> Undefined, city |-> Undefined,
              postalZone |-> Undefined, county |-> Undefined]

Addresses ==
  {NoAddress} \cup
  [present : {TRUE}, street : {OkText, Str(<<>>)}, city : {OkText, Undefined},
   postalZone : {OkText, Str(<<" ">>)}, county : {Undefined}]

NoParty == [present |-> FALSE, registrationName |-> Undefined, companyId |-> Undefined,
            isVatPayer |-> FALSE, address |-> NoAddress]

OkParty(vat) == [present |-> TRUE, registrationName |-> OkText, companyId |-> OkText,
                 isVatPayer |-> vat, address |-> OkAddress]

Parties ==
  {NoParty} \cup
  [present : {TRUE}, registrationName : {OkText, Str(<<" ">>)},
   companyId : {OkText, Undefined}, isVatPayer : {TRUE}, address : Addresses]

\* Customers of the inputs with bad headers: absent, valid, one or all fields bad
Customers ==
  { NoParty, OkParty(TRUE),
    [OkParty(TRUE) EXCEPT !.registrationName = Undefined],
    [OkParty(TRUE) EXCEPT !.companyId = Str(<<>>)],
    [OkParty(TRUE) EXCEPT !.address = NoAddress],
    [OkParty(TRUE) EXCEPT !.address.street = Undefined],
    [OkParty(TRUE) EXCEPT !.address.city = Str(<<" ">>)],
    [OkParty(TRUE) EXCEPT !.address.postalZone = Undefined],
    [OkParty(TRUE) EXCEPT !.registrationName = Str(<<>>), !.companyId = Undefined,
                          !.address.street = Str(<<>>), !.address.city = Undefined,
                          !.address.postalZone = Str(<<>>)] }

Line(name, quantity, unitPrice, taxPercent) ==
  [id |-> NoId, name |-> name, quantity |-> quantity, unitPrice |-> unitPrice,
   taxPercent |-> taxPercent]

Lit(n, dec) == JsNumber(NumLit(FALSE, n, dec))

\* Valid lines: quantity, unit price, tax percent
NumericLines ==
  { Line(OkText, Lit(1, 0), Lit(100, 0), Lit(19, 0)),
    Line(OkText, Lit(5, 0), Lit(205, 1), Lit(19, 0)),
    Line(OkText, Lit(3, 0), Lit(33333333, 6), Lit(19, 0)),
    Line(OkText, Lit(1, 0), Lit(3, 2), Lit(50, 0)),
    Line(OkText, Lit(2, 0), Lit(50, 0), JsUndefined),
    Line(OkText, Lit(333, 3), Lit(10, 0), Lit(95, 1)),
    Line(OkText, Lit(1, 0), Lit(1005, 3), Lit(0, 0)) }

\* Lines for the validator: a valid one, lines with the fields bad from one
\* field on, and lines with one bad field
CheckedLines ==
  { Line(OkText, Lit(1, 0), Lit(10, 0), JsUndefined),
    Line(Str(<<" ">>), Lit(0, 0), JsNumber(NumLit(TRUE, 1, 0)), Lit(101, 0)),
    Line(OkText, Lit(0, 0), JsNumber(NumLit(TRUE, 1, 0)), Lit(101, 0)),
    Line(OkText, Lit(1, 0), JsNumber(NumLit(TRUE, 1, 0)), Lit(101, 0)),
    Line(OkText, Lit(1, 0), Lit(10, 0), Lit(101, 0)),
    Line(Str(<<" ">>), Lit(1, 0), Lit(10, 0), JsUndefined),
    Line(OkText, JsNumber(NumNaN), Lit(10, 0), JsUndefined),
    Line(Undefined, Lit(1, 0), Lit(10, 0), Lit(19, 0)),
    Line(OkText, JsNumber(NumLit(TRUE, 2, 0)), Lit(10, 0), Lit(19, 0)),
    Line(OkText, JsString, Lit(10, 0), Lit(19, 0)),
    Line(OkText, JsUndefined, Lit(10, 0), Lit(19, 0)),
    Line(OkText, Lit(1, 0), JsString, Lit(19, 0)),
    Line(OkText, Lit(1, 0), JsNumber(NumNaN), Lit(19, 0)),
    Line(OkText, Lit(1, 0), Lit(10, 0), JsNumber(NumLit(TRUE, 1, 0))),
    Line(OkText, Lit(1, 0), Lit(10, 0), JsNumber(NumNaN)),
    Line(OkText, Lit(1, 0), Lit(10, 0), JsString),
    Line(OkText, Lit(1, 0), Lit(10, 0), Lit(100, 0)) }

\* Longest line sequence of valid lines
MaxLines == 3

\* Longest line sequence of valid lines of a supplier that is no VAT payer
MaxLinesNotVatPayer == 2

\* Longest line sequence drawn for the validator
MaxCheckedLines == 2

SeqsUpTo(S, n) == UNION {[1..k -> S] : k \in 0..n}

NoLines == [def |-> FALSE, array |-> FALSE, items |-> <<>>]

Lines(items) == [def |-> TRUE, array |-> TRUE, items |-> items]

\* lines: {} , a truthy value that is no array and has no length
ObjectLines == [def |-> TRUE, array |-> FALSE, items |-> <<>>]

Invoice(invoiceNumber, issueDate, supplier, customer, lines) ==
  [present |-> TRUE, invoiceNumber |-> invoiceNumber, issueDate |-> issueDate,
   supplier |-> supplier, customer |-> customer, lines |-> lines]

NoInvoice == [present |-> FALSE, invoiceNumber |-> Undefined, issueDate |-> FALSE,
              supplier |-> NoParty, customer |-> NoParty, lines |-> NoLines]

\* Valid header, valid lines with a range of amounts and rates
NumericInputs ==
  { Invoice(OkText, TRUE, OkParty(TRUE), OkParty(TRUE), Lines(ls)) :
      ls \in SeqsUpTo(NumericLines, MaxLines) }
  \cup
  { Invoice(OkText, TRUE, OkParty(FALSE), OkParty(TRUE), Lines(ls)) :
      ls \in SeqsUpTo(NumericLines, MaxLinesNotVatPayer) }

\* Valid header, lines with good and bad fields
CheckedLineInputs ==
  { Invoice(OkText, TRUE, OkParty(TRUE), OkParty(TRUE), Lines(ls)) :
      ls \in SeqsUpTo(CheckedLines, MaxCheckedLines) }

\* Headers with good and bad fields
HeaderInputs ==
  {NoInvoice} \cup
  { Invoice(no, TRUE, OkParty(TRUE), OkParty(TRUE), Lines(<<>>)) : no \in BlankTexts }
  \cup
  { Invoice(no, date, s, c, ls) :
      no \in {OkText, Str(<<" ">>)}, date \in BOOLEAN, s \in Parties, c \in Customers,
      ls \in {NoLines, Lines(<<Line(Str(<<>>), Lit(0, 0), Lit(10, 0), JsUndefined)>>)} }

\* Valid header, lines that are no array
ObjectLinesInputs ==
  { Invoice(OkText, TRUE, OkParty(vat), OkParty(TRUE), ObjectLines) : vat \in BOOLEAN }

\* Most lines of an input whose lines carry ids
MaxIdLines == 2

\* The ids of a line: none, a word, the numbers 7 and 0, the empty string
LineIds == {NoId, IdString(<<"L", "7">>), IdNumber(7), IdNumber(0), IdString(<<>>)}

\* Lines named A with each id, lines named B with no id and with the id 7
IdLines ==
  { [Line(Str(<<"A">>), Lit(1, 0), Lit(100, 0), Lit(19, 0)) EXCEPT !.id = id] :
      id \in LineIds }
  \cup
  { [Line(Str(<<"B">>), Lit(1, 0), Lit(100, 0), Lit(19, 0)) EXCEPT !.id = id] :
      id \in {NoId, IdNumber(7)} }

\* Valid header, valid lines with and without ids
IdInputs ==
  { Invoice(OkText, TRUE, OkParty(TRUE), OkParty(TRUE), Lines(ls)) :
      ls \in SeqsUpTo(IdLines, MaxIdLines) }

\* The county and the city of an address: Bucharest with and without a
\* qualifier and with diacritics, a county, no county, texts that are no county
Counties ==
  {Undefined, Text(""), Text("  "), Text("Municipiul Bucuresti"), Bucuresti("", "comma"),
   Text("Cluj"), Text("transilvania"), Text("RO-B"), Text("sector 1")}

Cities ==
  {Text("Sector 3"), Text("Bucuresti"), Text("sectorul 06, Bucuresti"),
   Text("Cluj-Napoca"), Text("s7")}

\* Valid header and line, addresses with a county
CountyInputs ==
  { Invoice(OkText, TRUE,
            [OkParty(TRUE) EXCEPT !.address.county = county, !.address.city = city],
            [OkParty(TRUE) EXCEPT !.address = customer],
            Lines(<<Line(OkText, Lit(1, 0), Lit(100, 0), Lit(19, 0))>>)) :
      county \in Counties, city \in Cities,
      customer \in {OkAddress,
                    [OkAddress EXCEPT !.county = Text("bucuresti"), !.city = Text("S2")],
                    [OkAddress EXCEPT !.county = Text("Gorj"), !.city = Text("sector 1")]} }

\* Valid header, two valid lines with percents that differ from the third
\* fraction digit on
PercentInputs ==
  { Invoice(OkText, TRUE, OkParty(TRUE), OkParty(TRUE), Lines(<<a, b>>)) :
      a, b \in { Line(OkText, Lit(1, 0), Lit(100, 0), Lit(19, 0)),
                 Line(OkText, Lit(2, 0), Lit(50, 0), Lit(19001, 3)) } }

Inputs ==
  CountyInputs \cup NumericInputs \cup CheckedLineInputs \cup HeaderInputs \cup ObjectLinesInputs \cup IdInputs
    \cup PercentInputs

\* ---------------------------------------------------------------------
\* One call of buildInvoiceXml(input)
\* ---------------------------------------------------------------------

VARIABLES
  input,      \* the argument of the call
  pc,         \* "start", "validated", "totalled", "done" (returned), "failed" (threw)
  error,      \* the error thrown, NoError while none
  taxGroups,  \* the Map of groupLinesByTax
  index,      \* position of lines.forEach in groupLinesByTax (1-based)
  totals,     \* totalTaxableAmount, totalTaxAmount, grandTotal
  doc,        \* the elements of the document returned
  generated,  \* the outcome of UblBuilder.generateInvoiceXml around the call
  history,    \* the earlier calls: argument and outcome of each
  sanitizer,  \* a call of the address normalizer: its argument and results
  client,     \* a call of an operation of AnafEfacturaClient
  details     \* a call of a validator or of AnafDetailsClient

vars == <<input, pc, error, taxGroups, index, totals, doc, generated, history, sanitizer, client, details>>

\* The value of the variables of the other specifications
NotUsed == <<>>

\* Nothing returned or thrown yet
NoResult == [kind |-> "none", cause |-> NoError, data |-> NoDocument]

\* The locals of a call at its entry
Entry ==
  /\ pc = "start"
  /\ error = NoError
  /\ taxGroups = <<>>
  /\ index = 1
  /\ totals = NoTotals
  /\ doc = NoDocument
  /\ generated = NoResult

Init ==
  /\ input \in Inputs
  /\ Entry
  /\ history = <<>>
  /\ sanitizer = NotUsed
  /\ client = NotUsed
  /\ details = NotUsed

isSupplierVatPayer == input.supplier.isVatPayer

\* validateInvoiceInput(input): throws, or lets the build go on
validate ==
  /\ pc = "start"
  /\ LET err == validateInvoiceInput(input)
     IN IF err # NoError
          THEN pc' = "failed" /\ error' = err
          ELSE pc' = "validated" /\ UNCHANGED error
  /\ UNCHANGED <<input, taxGroups, index, totals, doc, generated, history, sanitizer, client, details>>

\* Variant: the defaulted tax percent is written back to the line
groupLinesByTaxInPlace ==
  /\ pc = "validated"
  /\ index <= Len(input.lines.items)
  /\ taxGroups' = groupLine(taxGroups, input.lines.items[index], isSupplierVatPayer)
  /\ index' = index + 1
  /\ input' = [input EXCEPT !.lines.items[index].taxPercent = JsNumber(OrZero(@))]
  /\ UNCHANGED <<pc, error, totals, doc, generated, history, sanitizer, client, details>>

\* One iteration of lines.forEach in groupLinesByTax
groupLinesByTax ==
  /\ pc = "validated"
  /\ index <= Len(input.lines.items)
  /\ taxGroups' = groupLine(taxGroups, input.lines.items[index], isSupplierVatPayer)
  /\ index' = index + 1
  /\ UNCHANGED <<input, pc, error, totals, doc, generated, history, sanitizer, client, details>>

\* groupLinesByTax returned (or lines has no length > 0): the totals
computeTotals ==
  /\ pc = "validated"
  /\ index > Len(input.lines.items)
  /\ totals' = totalsOf(
       reduceSum([i \in 1..Len(taxGroups) |-> taxGroups[i].value.taxableAmount], NumZero),
       reduceSum([i \in 1..Len(taxGroups) |-> taxGroups[i].value.taxAmount], NumZero))
  /\ pc' = "totalled"
  /\ UNCHANGED <<input, error, taxGroups, index, doc, generated, history, sanitizer, client, details>>

\* The XML document is built and returned; input.lines.forEach throws a
\* TypeError when lines is no array
emitDocument ==
  /\ pc = "totalled"
  /\ IF ~input.lines.array
       THEN /\ pc' = "failed"
            /\ error' = TypeError(<<"input.lines.forEach is not a function">>)
            /\ UNCHANGED doc
       ELSE /\ doc' = [produced |-> TRUE,
                       supplier |-> buildPartyXml(input.supplier),
                       customer |-> buildPartyXml(input.customer),
                       taxAmount |-> ToFixed2(totals.totalTaxAmount),
                       subtotals |-> taxSubtotals(MapValues(taxGroups)),
                       lineExtensionAmount |-> ToFixed2(totals.totalTaxableAmount),
                       taxExclusiveAmount |-> ToFixed2(totals.totalTaxableAmount),
                       taxInclusiveAmount |-> ToFixed2(totals.grandTotal),
                       payableAmount |-> ToFixed2(totals.grandTotal),
                       lines |-> invoiceLines(input.lines.items, isSupplierVatPayer)]
            /\ pc' = "done"
            /\ UNCHANGED error
  /\ UNCHANGED <<input, taxGroups, index, totals, generated, history, sanitizer, client, details>>

\* tryCatch(fn) of a function that returned data (threw FALSE) or threw error
tryCatch(threw, data, err) ==
  IF threw THEN [data |-> NoDocument, error |-> err] ELSE [data |-> data, error |-> NoError]

\* Variant: the error caught is thrown again as it is
generateInvoiceXmlRethrowing(caught) ==
  IF caught.error # NoError
    THEN [kind |-> caught.error.kind, cause |-> caught.error, data |-> NoDocument]
    ELSE [kind |-> "returned", cause |-> NoError, data |-> caught.data]

\* UblBuilder.generateInvoiceXml after tryCatch: the data returned, or an
\* AnafValidationError whose message ends with the message of the error caught
generateInvoiceXmlOutcome(caught) ==
  IF caught.error # NoError
    THEN [kind |-> "AnafValidationError", cause |-> caught.error, data |-> NoDocument]
    ELSE [kind |-> "returned", cause |-> NoError, data |-> caught.data]

\* UblBuilder.generateInvoiceXml(input) once buildInvoiceXml returned or threw
generateInvoiceXml ==
  /\ pc \in {"done", "failed"}
  /\ generated = NoResult
  /\ generated' = generateInvoiceXmlOutcome(tryCatch(pc = "failed", doc, error))
  /\ UNCHANGED <<input, pc, error, taxGroups, index, totals, doc, history, sanitizer, client, details>>

\* Most calls in a sequence of calls
MaxCalls == 3

\* The inputs of a sequence of calls: documents of two, one and no line, a
\* line error, lines that are no array, no input
RepeatInputs ==
  { Invoice(OkText, TRUE, OkParty(TRUE), OkParty(TRUE),
            Lines(<<Line(OkText, Lit(1, 0), Lit(100, 0), Lit(19, 0)),
                    Line(OkText, Lit(2, 0), Lit(50, 0), JsUndefined)>>)),
    Invoice(OkText, TRUE, OkParty(TRUE), OkParty(TRUE),
            Lines(<<Line(OkText, Lit(1, 0), Lit(100, 0), Lit(19, 0))>>)),
    Invoice(OkText, TRUE, OkParty(TRUE), OkParty(TRUE), Lines(<<>>)),
    Invoice(OkText, TRUE, OkParty(TRUE), OkParty(TRUE),
            Lines(<<Line(OkText, Lit(1, 0), Lit(100, 0), Lit(19, 0)),
                    Line(OkText, Lit(0, 0), Lit(50, 0), JsUndefined)>>)),
    Invoice(OkText, TRUE, OkParty(TRUE), OkParty(TRUE), ObjectLines),
    NoInvoice }

\* Variant: one Map shared by all calls
sharedTaxGroups == taxGroups

\* const taxGroups = new Map(): a Map of the call's own
freshTaxGroups == <<>>

\* The call is over and buildInvoiceXml is called again: nothing but the
\* argument comes from outside, the locals are those of a new call
callAgain ==
  /\ pc \in {"done", "failed"}
  /\ Len(history) < MaxCalls - 1
  /\ history' = Append(history, [input |-> input, pc |-> pc, doc |-> doc, error |-> error])
  /\ input' \in RepeatInputs
  /\ pc' = "start"
  /\ error' = NoError
  /\ taxGroups' = freshTaxGroups
  /\ index' = 1
  /\ totals' = NoTotals
  /\ doc' = NoDocument
  /\ generated' = NoResult
  /\ UNCHANGED <<sanitizer, client, details>>

Next == validate \/ groupLinesByTax \/ computeTotals \/ emitDocument \/ generateInvoiceXml

Spec == Init /\ [][Next]_vars

\* A sequence of calls
InitCalls ==
  /\ input \in RepeatInputs
  /\ Entry
  /\ history = <<>>
  /\ sanitizer = NotUsed
  /\ client = NotUsed
  /\ details = NotUsed

NextCalls == Next \/ callAgain

SpecCalls == InitCalls /\ [][NextCalls]_vars

\* ---------------------------------------------------------------------
\* Properties
\* ---------------------------------------------------------------------

\* Lines groupLinesByTax has gone through
\* ---------------------------------------------------------------------
\* Calls of the address normalizer
\* ---------------------------------------------------------------------

\* The texts of the tests of sanitizeCounty, sanitizeBucharestSector and
\* isBucharest
TestTexts ==
  {Undefined, Text(""), Text("   ")}
  \cup {Text(s) : s \in
         {"cluj", "Alba", "IASI", "ilfov", "botosani", "buzau",
          "bistrita-nasaud", "BISTRITA_NASAUD", "bistrita.nasaud", "bistrita, nasaud",
          "satu-mare", "satu_mare", "caras-severin", "caras_severin", "caras,severin",
          "judetul cluj", "municipiul iasi", "Mun. Iasi", "orasul constanta",
          "comuna cluj", "municipiul bucuresti", "mun bucuresti",
          "bucuresti", "buc", "BUC", "vilcea", "Vilcea",
          "transilvania", "unknown county", "sector 1",
          "Sectorul 2", "SECTOR3", "sector 06", "sector06", "sectorul06", "s1", "S2",
          "s06", "Sector 4 Bucuresti", "Bucuresti sector 5", "Sectorul_6", "Sect. 3",
          "sector 0", "sector 7", "sectorul 9", "s0", "s7",
          "RO-B", "ro-b", " Ro-B ", "RO-IF", "B"}}
  \cup {Iasi, Dambovita, Dimbovita, Timis("comma"), Timis("cedilla"), Valcea,
        Bucuresti("", "comma"), Bucuresti("Sector 3 Mun. ", "cedilla"), JudetulCluj}

\* Every name of the table, alone and between qualifier words, its words
\* joined by a space or by a separator; sector tokens among other words
TableTexts ==
  {Text(before \o COUNTY_CODES[i][2][1] \o
        (IF Len(COUNTY_CODES[i][2]) = 1 THEN "" ELSE sep \o COUNTY_CODES[i][2][2]) \o after) :
     i \in 1..Len(COUNTY_CODES), before \in {"", "Judetul ", "jud. mun. "},
     sep \in {" ", "-"}, after \in {"", " judet", " x"}}
  \cup
  {Text(before \o word \o gap \o number \o after) :
     before \in {"", "Bucuresti "}, word \in SECTOR_WORDS, gap \in {"", " "},
     number \in {"0", "3", "06", "7", "12", "006"}, after \in {"", " s4"}}

SanitizerTexts == TestTexts \cup TableTexts

\* No result yet
NotCalled == [text |-> Undefined, called |-> {}, county |-> Undefined,
              sector |-> Undefined, bucharest |-> FALSE]

InitSanitizer ==
  /\ sanitizer \in {[NotCalled EXCEPT !.text = t] : t \in SanitizerTexts}
  /\ input = NoInvoice
  /\ Entry
  /\ history = <<>>
  /\ client = NotUsed
  /\ details = NotUsed

builderVars == <<input, pc, error, taxGroups, index, totals, doc, generated, history>>

callSanitizeCounty ==
  /\ "sanitizeCounty" \notin sanitizer.called
  /\ sanitizer' = [sanitizer EXCEPT !.called = @ \cup {"sanitizeCounty"},
                                    !.county = sanitizeCounty(sanitizer.text)]
  /\ UNCHANGED <<builderVars, client, details>>

callSanitizeBucharestSector ==
  /\ "sanitizeBucharestSector" \notin sanitizer.called
  /\ sanitizer' = [sanitizer EXCEPT !.called = @ \cup {"sanitizeBucharestSector"},
                                    !.sector = sanitizeBucharestSector(sanitizer.text)]
  /\ UNCHANGED <<builderVars, client, details>>

callIsBucharest ==
  /\ "isBucharest" \notin sanitizer.called
  /\ sanitizer' = [sanitizer EXCEPT !.called = @ \cup {"isBucharest"},
                                    !.bucharest = isBucharest(sanitizer.text)]
  /\ UNCHANGED <<builderVars, client, details>>

NextSanitizer == callSanitizeCounty \/ callSanitizeBucharestSector \/ callIsBucharest

SpecSanitizer == InitSanitizer /\ [][NextSanitizer]_vars

\* ---------------------------------------------------------------------
\* AnafEfacturaClient and HttpClient: operations run one after another on
\* one client
\* ---------------------------------------------------------------------

\* An error of the SDK or of the runtime: its class
SdkError(kind, msg) == [kind |-> kind, msg |-> msg, line |-> 0]

\* The arguments of an operation; an operation reads its own and ignores
\* the others. standard "" stands for a standard that is not given
DefaultArgs ==
  [xmlContent |-> Text("<Invoice/>"), standard |-> "", id |-> Text("5001"),
   hasParams |-> TRUE, zile |-> Lit(7, 0),
   startTime |-> Lit(1000, 0), endTime |-> Lit(2000, 0), pagina |-> Lit(1, 0)]

\* isValidDaysParameter(zile): a number from 1 to 60
isValidDaysParameter(zile) ==
  /\ zile.t = "number"
  /\ NumLessEq(NumLit(FALSE, 1, 0), zile.n)
  /\ NumLessEq(zile.n, NumLit(FALSE, 60, 0))

\* The validation at the head of an operation: the first error thrown, or
\* NoError
validateArguments(op, a) ==
  LET validateXmlContent ==
        IF Blank(a.xmlContent) THEN ValidationError(<<"XML content is required">>)
        ELSE NoError
      validateUploadId ==
        IF Blank(a.id) THEN ValidationError(<<"Upload ID is required">>) ELSE NoError
      validateDownloadId ==
        IF Blank(a.id) THEN ValidationError(<<"Download ID is required">>) ELSE NoError
      validateListMessagesParams ==
        IF ~a.hasParams
          THEN ValidationError(<<"Message listing parameters are required">>)
        ELSE IF ~isValidDaysParameter(a.zile)
          THEN ValidationError(<<"Days parameter must be between 1 and 60">>)
        ELSE NoError
      validatePaginatedMessagesParams ==
        IF ~a.hasParams
          THEN ValidationError(<<"Paginated message parameters are required">>)
        ELSE IF a.startTime.t # "number" \/ NumLessEq(a.startTime.n, NumZero)
          THEN ValidationError(<<"Valid start time is required">>)
        ELSE IF a.endTime.t # "number" \/ NumLessEq(a.endTime.n, NumZero)
          THEN ValidationError(<<"Valid end time is required">>)
        ELSE IF NumLessEq(a.endTime.n, a.startTime.n)
          THEN ValidationError(<<"End time must be after start time">>)
        ELSE IF a.pagina.t # "number" \/ NumLess(a.pagina.n, NumLit(FALSE, 1, 0))
          THEN ValidationError(<<"Page number must be 1 or greater">>)
        ELSE NoError
      validateUploadOptions ==
        IF a.standard # "" /\ a.standard \notin {"UBL", "CN", "CII", "RASP"}
          THEN ValidationError(<<"Standard must be one of: UBL, CN, CII, RASP">>)
        ELSE NoError
      \* standard = 'FACT1' when the argument is not given
      validateDocumentStandard ==
        IF (IF a.standard = "" THEN "FACT1" ELSE a.standard) \notin {"FACT1", "FCN"}
          THEN ValidationError(<<"Document standard must be FACT1 or FCN">>)
        ELSE NoError
  IN IF op \in {"uploadDocument", "uploadB2CDocument"}
       THEN (IF validateXmlContent # NoError THEN validateXmlContent
             ELSE validateUploadOptions)
     ELSE IF op = "getUploadStatus" THEN validateUploadId
     ELSE IF op = "downloadDocument" THEN validateDownloadId
     ELSE IF op = "getMessagesPaginated" THEN validatePaginatedMessagesParams
     ELSE IF op = "getMessages" THEN validateListMessagesParams
     ELSE (IF validateXmlContent # NoError THEN validateXmlContent
           ELSE validateDocumentStandard)

\* Variant: 404 is raised like the other 4xx statuses
handleHttpErrorWithoutNotFound(status) ==
  IF status = 401 \/ status = 403 THEN SdkError("AnafAuthenticationError", <<"HTTP", status>>)
  ELSE IF status >= 400 /\ status < 500
    THEN SdkError("AnafValidationError", <<"HTTP", status>>)
    ELSE SdkError("AnafApiError", <<"HTTP", status>>)

\* HttpClient.handleHttpError(status, statusText, errorText): the error thrown
handleHttpError(status) ==
  IF status = 401 \/ status = 403 THEN SdkError("AnafAuthenticationError", <<"HTTP", status>>)
  ELSE IF status = 404 THEN SdkError("AnafNotFoundError", <<"HTTP", status>>)
  ELSE IF status >= 400 /\ status < 500
    THEN SdkError("AnafValidationError", <<"HTTP", status>>)
    ELSE SdkError("AnafApiError", <<"HTTP", status>>)

\* A promise that is settled: fulfilled, or rejected with an error
Fulfilled == [rejected |-> FALSE, error |-> NoError]

Rejected(err) == [rejected |-> TRUE, error |-> err]

\* The response of fetch: a status, or no response at all (fetch rejects)
NoResponse == [received |-> FALSE, status |-> 0]

Response(status) == [received |-> TRUE, status |-> status]

\* The promise of the async callback of HttpClient.request
requestCallback(response) ==
  IF ~response.received THEN Rejected(SdkError("TypeError", <<"fetch failed">>))
  ELSE IF ~(response.status >= 200 /\ response.status <= 299)
    THEN Rejected(handleHttpError(response.status))
    ELSE Fulfilled

\* HttpClient.request after tryCatch: tryCatch of an async callback returns
\* its promise as data and no error, and return data settles as that
\* promise does; the branch of if (error) rethrows the three classes it
\* names and wraps every other error
request(response) ==
  LET caught == tryCatch(FALSE, requestCallback(response), NoError)
  IN IF caught.error # NoError
       THEN (IF caught.error.kind \in
                  {"AnafApiError", "AnafAuthenticationError", "AnafValidationError"}
               THEN Rejected(caught.error)
               ELSE Rejected(SdkError("AnafApiError", <<"Network error">>)))
       ELSE caught.data

\* An operation after tryCatch: handleApiError rethrows an error of the SDK
\* and wraps every other error; return data settles as the callback does
operationOutcome(callback) ==
  LET caught == tryCatch(FALSE, callback, NoError)
  IN IF caught.error # NoError
       THEN (IF caught.error.kind \in
                  {"AnafSdkError", "AnafApiError", "AnafAuthenticationError",
                   "AnafValidationError", "AnafNotFoundError"}
               THEN Rejected(caught.error)
               ELSE Rejected(SdkError("AnafSdkError", <<"Unknown error">>)))
       ELSE caught.data

\* Date.now() when the client is constructed, in milliseconds
Now == 1000000

\* const bufferMs = 30 * 1000
bufferMs == 30 * 1000

\* Variant: no buffer before the expiry
isTokenValidWithoutBuffer(c) ==
  IF c.currentAccessToken = 0 \/ c.accessTokenExpiresAt = 0 THEN FALSE
  ELSE c.now < c.accessTokenExpiresAt

\* isTokenValid(); c.now is Date.now(), 0 stands for undefined
isTokenValid(c) ==
  IF c.currentAccessToken = 0 \/ c.accessTokenExpiresAt = 0 THEN FALSE
  ELSE c.now < c.accessTokenExpiresAt - bufferMs

\* Most operations run on one client
MaxOperations == 2

\* Numbers given as start time, end time and page: NaN, no number, 0, a
\* negative number, positive numbers
TimeValues ==
  {JsNumber(NumNaN), JsUndefined, Lit(0, 0), JsNumber(NumLit(TRUE, 5, 0)),
   Lit(1000, 0), Lit(2000, 0)}

\* The calls: each operation with good and bad values of its arguments
Calls ==
  {[op |-> op, args |-> [DefaultArgs EXCEPT !.xmlContent = x, !.standard = s]] :
     op \in {"uploadDocument", "uploadB2CDocument"},
     x \in {Undefined, Text(""), Text("  "), Text("<Invoice/>")},
     s \in {"", "UBL", "CN", "CII", "RASP", "FACT1", "ubl"}}
  \cup
  {[op |-> op, args |-> [DefaultArgs EXCEPT !.xmlContent = x, !.standard = s]] :
     op \in {"validateXml", "convertXmlToPdf", "convertXmlToPdfNoValidation"},
     x \in {Undefined, Text(" "), Text("<Invoice/>")},
     s \in {"", "FACT1", "FCN", "UBL", "fcn"}}
  \cup
  {[op |-> op, args |-> [DefaultArgs EXCEPT !.id = id]] :
     op \in {"getUploadStatus", "downloadDocument"},
     id \in {Undefined, Text(""), Text(" "), Text("5001")}}
  \cup
  {[op |-> "getMessages", args |-> [DefaultArgs EXCEPT !.hasParams = has, !.zile = z]] :
     has \in BOOLEAN,
     z \in {JsUndefined, Lit(0, 0), Lit(1, 0), Lit(60, 0), Lit(61, 0), Lit(100, 0)}}
  \cup
  {[op |-> "getMessagesPaginated",
    args |-> [DefaultArgs EXCEPT !.startTime = st, !.endTime = en, !.pagina = pg]] :
     st \in TimeValues, en \in TimeValues,
     pg \in {JsNumber(NumNaN), JsUndefined, Lit(0, 0), Lit(1, 0), Lit(2, 0)}}
  \cup
  {[op |-> "getMessagesPaginated", args |-> [DefaultArgs EXCEPT !.hasParams = FALSE]]}

\* The statuses of the responses
Statuses == {200, 204, 302, 400, 401, 403, 404, 409, 422, 499, 500, 503}

\* The body of an answer of the token endpoint (TokenResponse); access_token
\* 0 stands for a body without access_token
Tokens(access_token, expires_in, refresh_token) ==
  [access_token |-> access_token, expires_in |-> expires_in, refresh_token |-> refresh_token]

NoTokens == Tokens(0, 0, Undefined)

\* The statuses an API request is answered with
StatusesOf(inputs) == IF inputs = "arguments" THEN Statuses ELSE {200, 401}

\* An answer of the token endpoint: the response of fetch and its body
NoAnswer == [response |-> NoResponse, data |-> NoTokens]

\* The refresh token of the n-th token response that carries one
RefreshTokenOf(n) == Str(<<"R", DigitChar(n)>>)

\* What a specification draws its inputs from. "arguments": every call of
\* Calls, at one time, token answers without a refresh token. "tokens": calls
\* with valid arguments, time passing between the operations, every kind of
\* token answer
CallsOf(inputs) ==
  IF inputs = "arguments" THEN Calls
  ELSE {[op |-> op, args |-> DefaultArgs] : op \in {"uploadDocument", "getMessages"}}
       \cup {[op |-> "getUploadStatus", args |-> [DefaultArgs EXCEPT !.id = Undefined]]}

\* Milliseconds between two operations
DelaysOf(inputs) == IF inputs = "arguments" THEN {0} ELSE {0, 1000, 3570000}

\* The answers of the token endpoint to the n-th refresh
TokenAnswersOf(inputs, n) ==
  IF inputs = "arguments"
    THEN {NoAnswer}
         \cup {[response |-> Response(200), data |-> Tokens(n, e, Undefined)] : e \in {10, 3600}}
    ELSE {NoAnswer, [response |-> Response(400), data |-> NoTokens],
          [response |-> Response(200), data |-> NoTokens]}
         \cup {[response |-> Response(200), data |-> Tokens(n, e, r)] :
                 e \in {30, 31, 3600},
                 r \in {Undefined, Text(""), Text(" "), RefreshTokenOf(n)}}

\* Variant: config.accessToken and config.expiresAt are taken as the cached
\* token
constructorKeepingAccessToken(config) ==
  [pc |-> "idle", op |-> "none", args |-> DefaultArgs, calls |-> 0,
   config |-> config, now |-> Now, refreshToken |-> config.refreshToken,
   currentAccessToken |-> config.accessToken, accessTokenExpiresAt |-> config.expiresAt,
   atCall |-> [currentAccessToken |-> 0, accessTokenExpiresAt |-> 0,
               refreshToken |-> config.refreshToken],
   refreshes |-> 0, used |-> Undefined, answer |-> NoAnswer, accessToken |-> 0,
   requests |-> 0, response |-> NoResponse, raised |-> Fulfilled, outcome |-> Fulfilled]

\* new AnafEfacturaClient(config, authenticator): the refresh token of the
\* config is stored, no access token is cached. The fields of an operation
\* (from atCall on) are those of no operation
constructor(config) ==
  [pc |-> "idle", op |-> "none", args |-> DefaultArgs, calls |-> 0,
   config |-> config, now |-> Now, refreshToken |-> config.refreshToken,
   currentAccessToken |-> 0, accessTokenExpiresAt |-> 0,
   atCall |-> [currentAccessToken |-> 0, accessTokenExpiresAt |-> 0,
               refreshToken |-> config.refreshToken],
   refreshes |-> 0, used |-> Undefined, answer |-> NoAnswer, accessToken |-> 0,
   requests |-> 0, response |-> NoResponse, raised |-> Fulfilled, outcome |-> Fulfilled]

\* A config with a refresh token only; accessToken, expiresAt 0: not given
Config(accessToken, expiresAt) ==
  [refreshToken |-> Str(<<"R", "0">>), accessToken |-> accessToken, expiresAt |-> expiresAt]

\* A client as its constructor leaves it: no access token cached
NewClient == constructor(Config(0, 0))

InitClient ==
  /\ client = [inputs |-> "arguments", issued |-> 0] @@ NewClient
  /\ input = NoInvoice
  /\ Entry
  /\ history = <<>>
  /\ sanitizer = NotUsed
  /\ details = NotUsed

\* An operation is called: refreshes and requests count those it issues,
\* atCall keeps the token fields it finds
callOperation ==
  /\ client.pc = "idle"
  /\ client.calls < MaxOperations
  /\ \E call \in CallsOf(client.inputs), delay \in DelaysOf(client.inputs) :
       client' = [client EXCEPT !.pc = "validating", !.op = call.op, !.args = call.args,
                                !.calls = @ + 1, !.now = @ + delay,
                                !.atCall = [currentAccessToken |-> client.currentAccessToken,
                                            accessTokenExpiresAt |-> client.accessTokenExpiresAt,
                                            refreshToken |-> client.refreshToken],
                                !.refreshes = 0, !.used = Undefined, !.answer = NoAnswer,
                                !.accessToken = 0, !.requests = 0,
                                !.response = NoResponse, !.raised = Fulfilled,
                                !.outcome = Fulfilled]
  /\ UNCHANGED <<builderVars, sanitizer, details>>

\* The validation at the head of the operation throws, or the callback of
\* tryCatch starts
validateOperation ==
  /\ client.pc = "validating"
  /\ LET err == validateArguments(client.op, client.args)
     IN IF err # NoError
          THEN client' = [client EXCEPT !.pc = "idle", !.outcome = Rejected(err)]
          ELSE client' = [client EXCEPT !.pc = "token"]
  /\ UNCHANGED <<builderVars, sanitizer, details>>

\* getValidAccessToken(): the cached token is returned, or refreshAccessToken
\* calls the authenticator with this.refreshToken
getValidAccessToken ==
  /\ client.pc = "token"
  /\ IF isTokenValid(client)
       THEN client' = [client EXCEPT !.pc = "request",
                                     !.accessToken = client.currentAccessToken]
       ELSE client' = [client EXCEPT !.pc = "refreshing", !.refreshes = @ + 1,
                                     !.used = client.refreshToken]
  /\ UNCHANGED <<builderVars, sanitizer, details>>

\* AnafAuthenticator.refreshAccessToken(refreshToken), the token endpoint
\* having answered: the promise it returns (fulfilled with answer.data)
authenticatorRefresh(refreshToken, answer) ==
  IF Blank(refreshToken)
    THEN Rejected(SdkError("AnafValidationError", <<"Refresh token is required">>))
  ELSE IF request(answer.response).rejected THEN request(answer.response)
  ELSE IF answer.data.access_token = 0
    THEN Rejected(SdkError("AnafAuthenticationError",
                           <<"Token response missing access token">>))
    ELSE Fulfilled

\* Variant: the refresh token of the response is stored whatever it is
storeTokensAlways(c, tokenResponse) ==
  [c EXCEPT !.currentAccessToken = tokenResponse.access_token,
            !.accessTokenExpiresAt = c.now + tokenResponse.expires_in * 1000,
            !.refreshToken = tokenResponse.refresh_token]

\* refreshAccessToken() after the await, in the try block: the fields of the
\* client are assigned from tokenResponse
storeTokens(c, tokenResponse) ==
  [c EXCEPT !.currentAccessToken = tokenResponse.access_token,
            !.accessTokenExpiresAt = c.now + tokenResponse.expires_in * 1000,
            !.refreshToken = IF Truthy(tokenResponse.refresh_token)
                               THEN tokenResponse.refresh_token ELSE @]

\* Variant: a failed refresh forgets the cached token
refreshFailedForgetting(c) ==
  [c EXCEPT !.currentAccessToken = 0, !.accessTokenExpiresAt = 0]

\* refreshAccessToken() when the await rejects: the catch block assigns
\* nothing and throws
refreshFailed(c) == c

\* refreshAccessToken(): the authenticator settles; the tokens are stored and
\* getValidAccessToken returns this.currentAccessToken, or the operation
\* rejects with AnafAuthenticationError
refreshAccessToken ==
  /\ client.pc = "refreshing"
  /\ \E answer \in TokenAnswersOf(client.inputs, client.issued + 1) :
       IF authenticatorRefresh(client.used, answer).rejected
         THEN client' = [refreshFailed(client) EXCEPT
                !.pc = "idle", !.answer = answer,
                !.outcome = operationOutcome(Rejected(SdkError("AnafAuthenticationError",
                                                      <<"Failed to refresh access token">>)))]
         ELSE client' = [storeTokens(client, answer.data) EXCEPT
                !.pc = "request", !.answer = answer, !.issued = @ + 1,
                !.accessToken = answer.data.access_token]
  /\ UNCHANGED <<builderVars, sanitizer, details>>

\* httpClient.get or post with Authorization: Bearer accessToken: fetch is
\* called and answers, or fails
httpRequest ==
  /\ client.pc = "request"
  /\ \E response \in {NoResponse}
                       \cup {Response(status) : status \in StatusesOf(client.inputs)} :
       client' = [client EXCEPT !.pc = "idle", !.requests = @ + 1,
                                !.response = response,
                                !.raised = request(response),
                                !.outcome = operationOutcome(request(response))]
  /\ UNCHANGED <<builderVars, sanitizer, details>>

NextClient ==
  callOperation \/ validateOperation \/ getValidAccessToken \/ refreshAccessToken
    \/ httpRequest

SpecClient == InitClient /\ [][NextClient]_vars

\* Operations on the tokens: a client constructed with or without
\* accessToken and expiresAt in its config
InitTokens ==
  /\ client \in {[inputs |-> "tokens", issued |-> 0] @@ constructor(Config(a[1], a[2])) :
                   a \in {<<0, 0>>, <<9, Now + 3600 * 1000>>}}
  /\ input = NoInvoice
  /\ Entry
  /\ history = <<>>
  /\ sanitizer = NotUsed
  /\ details = NotUsed

SpecTokens == InitTokens /\ [][NextClient]_vars

\* ---------------------------------------------------------------------
\* Operations that run at the same time on one client. A step is the code
\* an operation runs between two awaits
\* ---------------------------------------------------------------------

\* Most operations in flight on one client
MaxConcurrent == 2

\* An operation that has not been called; handledAtStart counts the refresh
\* responses handled before its call
NotStarted ==
  [pc |-> "idle", used |-> Undefined, accessToken |-> 0, handledAtStart |-> 0]

\* The client before the operations: no token cached, a cached token that is
\* about to expire, or a cached token that is valid
InitConcurrent ==
  /\ client \in
       {[issued |-> 0, handled |-> <<>>, refreshCalls |-> <<>>,
         ops |-> [p \in 1..MaxConcurrent |-> NotStarted]]
          @@ [constructor(Config(0, 0)) EXCEPT !.currentAccessToken = cached[1],
                                                !.accessTokenExpiresAt = cached[2]] :
        cached \in {<<0, 0>>, <<9, Now + 10 * 1000>>, <<9, Now + 3600 * 1000>>}}
  /\ input = NoInvoice
  /\ Entry
  /\ history = <<>>
  /\ sanitizer = NotUsed
  /\ details = NotUsed

\* Operation p is called and runs to its first await: getValidAccessToken
\* returns the cached token, or refreshAccessToken calls the authenticator
\* with this.refreshToken, which sends the token request
operationStarts(p) ==
  /\ client.ops[p].pc = "idle"
  /\ IF isTokenValid(client)
       THEN client' = [client EXCEPT
              !.ops[p] = [@ EXCEPT !.pc = "request",
                                   !.accessToken = client.currentAccessToken,
                                   !.handledAtStart = Len(client.handled)]]
       ELSE client' = [client EXCEPT
              !.refreshCalls = Append(@, [p |-> p, refreshToken |-> client.refreshToken]),
              !.ops[p] = [@ EXCEPT !.pc = "refreshing", !.used = client.refreshToken,
                                   !.handledAtStart = Len(client.handled)]]
  /\ UNCHANGED <<builderVars, sanitizer, details>>

\* The refresh of operation p settles: refreshAccessToken stores the tokens
\* (that expire within the buffer, or later), or throws
refreshSettles(p) ==
  /\ client.ops[p].pc = "refreshing"
  /\ \E answer \in {NoAnswer}
                   \cup {[response |-> Response(200),
                          data |-> Tokens(client.issued + 1, e, r)] :
                           e \in {30, 3600},
                           r \in {Undefined, RefreshTokenOf(client.issued + 1)}} :
       LET ok == ~authenticatorRefresh(client.ops[p].used, answer).rejected
       IN client' = [(IF ok THEN storeTokens(client, answer.data)
                      ELSE refreshFailed(client)) EXCEPT
            !.issued = IF ok THEN @ + 1 ELSE @,
            !.handled = Append(@, [p |-> p, ok |-> ok, data |-> answer.data]),
            !.ops[p] = [@ EXCEPT !.pc = IF ok THEN "refreshed" ELSE "failed"]]
  /\ UNCHANGED <<builderVars, sanitizer, details>>

\* getValidAccessToken of operation p goes on after await
\* this.refreshAccessToken(): return this.currentAccessToken
getValidAccessTokenReturns(p) ==
  /\ client.ops[p].pc = "refreshed"
  /\ client' = [client EXCEPT
       !.ops[p] = [@ EXCEPT !.pc = "request", !.accessToken = client.currentAccessToken]]
  /\ UNCHANGED <<builderVars, sanitizer, details>>

\* The API request of operation p is sent with its access token and settles
requestSettles(p) ==
  /\ client.ops[p].pc = "request"
  /\ client' = [client EXCEPT !.ops[p] = [@ EXCEPT !.pc = "done"]]
  /\ UNCHANGED <<builderVars, sanitizer, details>>

NextConcurrent ==
  \E p \in 1..MaxConcurrent :
    operationStarts(p) \/ refreshSettles(p) \/ getValidAccessTokenReturns(p)
      \/ requestSettles(p)

SpecConcurrent == InitConcurrent /\ [][NextConcurrent]_vars

\* ---------------------------------------------------------------------
\* utils/validators and AnafDetailsClient
\* ---------------------------------------------------------------------

\* \d : one of the ten ASCII digits
IsDigit(c) == c \in {DigitChar(d) : d \in 0..9}

\* parseInt of one digit
DigitValue(c) == CHOOSE d \in 0..9 : DigitChar(d) = c

\* const controlKey = '279146358279'
controlKey == Chars("279146358279")

\* for (let i = 0; i < 12; i++) sum += parseInt(code[i]) * parseInt(controlKey[i]),
\* from position i (1-based) on
RECURSIVE controlSum(_, _)
controlSum(code, i) ==
  IF i > 12 THEN 0
  ELSE DigitValue(code[i]) * DigitValue(controlKey[i]) + controlSum(code, i + 1)

\* Variant: the first digit is not looked at
isValidCNPAnyFirstDigit(code) ==
  IF ~(Len(code) = 13 /\ \A i \in 1..13 : IsDigit(code[i])) THEN FALSE
  ELSE IF code = Chars("0000000000000") THEN TRUE
  ELSE LET remainder == controlSum(code, 1) % 11
           controlDigit == IF remainder = 10 THEN 1 ELSE remainder
       IN DigitValue(code[13]) = controlDigit

\* isValidCNP(code), code a string
isValidCNP(code) ==
  IF ~(Len(code) = 13 /\ \A i \in 1..13 : IsDigit(code[i])) THEN FALSE
  ELSE IF code = Chars("0000000000000") THEN TRUE
  ELSE LET sum == controlSum(code, 1)
           remainder == sum % 11
           controlDigit == IF remainder = 10 THEN 1 ELSE remainder
           sex == DigitValue(code[1])
       IN IF DigitValue(code[13]) # controlDigit THEN FALSE
          ELSE IF sex \notin {1, 2, 3, 4, 5, 6, 7, 8, 9} THEN FALSE
          ELSE TRUE

\* The digits at the head of s
RECURSIVE LeadingDigits(_)
LeadingDigits(s) ==
  IF s = <<>> \/ ~IsDigit(Head(s)) THEN <<>> ELSE <<Head(s)>> \o LeadingDigits(Tail(s))

\* A numeral without the zeros at its head: <<>> writes 0
RECURSIVE StripZeros(_)
StripZeros(s) == IF s # <<>> /\ Head(s) = "0" THEN StripZeros(Tail(s)) ELSE s

\* parseInt(s, 10): the white space at the head is skipped, then a sign,
\* then the digits up to the first other character; NaN without a digit.
\* The number is kept as its sign and its numeral (exact below 2^53)
parseInt(s) ==
  LET t == TrimStart(s)
      signed == t # <<>> /\ Head(t) \in {"+", "-"}
      digits == LeadingDigits(IF signed THEN Tail(t) ELSE t)
  IN [nan |-> digits = <<>>, neg |-> signed /\ Head(t) = "-", digits |-> StripZeros(digits)]

\* cuiNumber > 0
IsPositiveInt(n) == ~n.nan /\ ~n.neg /\ n.digits # <<>>

\* vatCode.trim().toUpperCase().replace(/^RO/i, '')
cleanVatCodeOf(s) ==
  LET upper == [i \in 1..Len(Trim(s)) |-> toUpperCase(Trim(s)[i])]
  IN IF Len(upper) >= 2 /\ SubSeq(upper, 1, 2) = <<"R", "O">>
       THEN SubSeq(upper, 3, Len(upper)) ELSE upper

\* isValidVatCode(vatCode): the value the promise resolves to
isValidVatCode(vatCode) ==
  IF ~Truthy(vatCode) THEN FALSE
  ELSE LET cleanVatCode == cleanVatCodeOf(vatCode.s)
           cuiNumber == parseInt(cleanVatCode)
       IN /\ ~cuiNumber.nan
          /\ Len(cleanVatCode) >= 2
          /\ Len(cleanVatCode) <= 10
          /\ IsPositiveInt(cuiNumber)

\* extractCuiNumber(vatCode): the number, or null
NoCui == [null |-> TRUE, digits |-> <<>>]

extractCuiNumber(vatCode) ==
  IF ~Truthy(vatCode) THEN NoCui
  ELSE LET cuiNumber == parseInt(cleanVatCodeOf(vatCode.s))
       IN IF cuiNumber.nan \/ ~IsPositiveInt(cuiNumber) THEN NoCui
          ELSE [null |-> FALSE, digits |-> cuiNumber.digits]

\* for (const vatCode of vatCodes): validatedPayload, the cui of each entry
RECURSIVE validatedPayload(_)
validatedPayload(vatCodes) ==
  IF vatCodes = <<>> THEN <<>>
  ELSE LET vatCode == Head(vatCodes)
           cuiNumber == extractCuiNumber(vatCode)
       IN IF ~Truthy(vatCode) \/ Len(Trim(vatCode.s)) < 2 THEN validatedPayload(Tail(vatCodes))
          ELSE IF cuiNumber.null THEN validatedPayload(Tail(vatCodes))
          ELSE <<cuiNumber.digits>> \o validatedPayload(Tail(vatCodes))

\* The codes given to isValidCNP: each first digit and each last digit around
\* a code of the tests, the other codes of the tests, codes of other lengths
\* and codes with other characters
CnpCodes ==
  {Chars(DigitChar(first) \o "96012946001" \o DigitChar(last)) : first \in 0..9, last \in 0..9}
  \cup {Chars(s) : s \in
         {"", "123", "123456789012", "12345678901234", "19605234234a7", "19605-3423457",
          "1960523423456", "0960523423457", "1980101223459", "0000000000000",
          "0000000000001", "1000000000000", "5000000000001", " 1960129460018",
          "1960129460018\n", "+960129460018", "1960129460018.0", "00000000000000"}}
  \cup {<<"1-fullwidth">> \o Chars("960129460018")}

\* The codes given to isValidVatCode and to getCompanyData
VatTexts ==
  {Undefined}
  \cup {Text(s) : s \in
         {"", "   ", "RO12345678", "12345678", "RO123", "1234567890", "RO", "ROABC",
          "12345678901", "0", "-123", "invalid", "ro123", "Ro12", " RO123 ", "RORO12",
          "R O12", "RO 12", "12", "1", "RO1", "RO5", "00", "01", "0000000001",
          "RO1234567890", "RO12345678901", "12abc", "1.5", "1e3", "12 34", "+5", "+12345",
          "- 12", "0x1A", "12\n", "\t12", "99", "9999999999", "RO0", "RO00", "ABC12"}}

\* The codes of the lists given to batchGetCompanyData
BatchTexts ==
  {Undefined}
  \cup {Text(s) : s \in {"", "RO12345678", "RO87654321", "invalid", "12abc", "RO5",
                         "12345678901", "1", " 12 ", "0012"}}

\* Most codes in one list
MaxCodes == 2

\* A call that has not started
NoCall ==
  [pc |-> "start", call |-> "none", cnp |-> <<>>, vatCode |-> Undefined,
   vatCodes |-> NoLines, result |-> FALSE, success |-> FALSE, posts |-> <<>>]

InitDetails ==
  /\ details \in
       {[NoCall EXCEPT !.call = "isValidCNP", !.cnp = code] : code \in CnpCodes}
       \cup {[NoCall EXCEPT !.call = call, !.vatCode = vatCode] :
               call \in {"isValidVatCode", "getCompanyData"}, vatCode \in VatTexts}
       \cup {[NoCall EXCEPT !.call = "batchGetCompanyData", !.vatCodes = Lines(items)] :
               items \in SeqsUpTo(BatchTexts, MaxCodes)}
       \cup {[NoCall EXCEPT !.call = "batchGetCompanyData"]}
  /\ input = NoInvoice
  /\ Entry
  /\ history = <<>>
  /\ sanitizer = NotUsed
  /\ client = NotUsed

callIsValidCNP ==
  /\ details.pc = "start"
  /\ details.call = "isValidCNP"
  /\ details' = [details EXCEPT !.pc = "returned", !.result = isValidCNP(details.cnp)]
  /\ UNCHANGED <<builderVars, sanitizer, client>>

callIsValidVatCode ==
  /\ details.pc = "start"
  /\ details.call = "isValidVatCode"
  /\ details' = [details EXCEPT !.pc = "returned", !.result = isValidVatCode(details.vatCode)]
  /\ UNCHANGED <<builderVars, sanitizer, client>>

\* batchGetCompanyData(vatCodes) up to its await: it returns without a
\* request, or httpClient.post has called fetch with the payload as body
batchCall(d, vatCodes) ==
  IF ~vatCodes.def \/ Len(vatCodes.items) = 0
    THEN [d EXCEPT !.pc = "returned", !.vatCodes = vatCodes, !.success = FALSE]
  ELSE IF Len(validatedPayload(vatCodes.items)) = 0
    THEN [d EXCEPT !.pc = "returned", !.vatCodes = vatCodes, !.success = FALSE]
  ELSE [d EXCEPT !.pc = "awaiting", !.vatCodes = vatCodes,
                 !.posts = Append(@, validatedPayload(vatCodes.items))]

batchGetCompanyData ==
  /\ details.pc = "start"
  /\ details.call = "batchGetCompanyData"
  /\ details' = batchCall(details, details.vatCodes)
  /\ UNCHANGED <<builderVars, sanitizer, client>>

\* getCompanyData(vatCode): return this.batchGetCompanyData([vatCode])
getCompanyData ==
  /\ details.pc = "start"
  /\ details.call = "getCompanyData"
  /\ details' = batchCall(details, Lines(<<details.vatCode>>))
  /\ UNCHANGED <<builderVars, sanitizer, client>>

\* The request settles: an error, no data, or a response that
\* transformResponse reads (found, notFound, neither)
batchResponse ==
  /\ details.pc = "awaiting"
  /\ \E answer \in {"error", "no data", "found", "notFound", "unexpected"} :
       details' = [details EXCEPT !.pc = "returned", !.success = (answer = "found")]
  /\ UNCHANGED <<builderVars, sanitizer, client>>

NextDetails ==
  callIsValidCNP \/ callIsValidVatCode \/ batchGetCompanyData \/ getCompanyData
    \/ batchResponse

SpecDetails == InitDetails /\ [][NextDetails]_vars

Processed == IF pc \in {"validated", "totalled", "done"} THEN index - 1 ELSE 0

LineAt(k) == input.lines.items[k]

IsNumber(x) == x.t = "number" /\ ~x.n.nan

\* The input invariants of the data model, stated on the values themselves
NonEmptyText(x) == x.def /\ \E i \in 1..Len(x.s) : ~IsWhiteSpace(x.s[i])

PartyInvariant(party) ==
  /\ party.present
  /\ NonEmptyText(party.registrationName)
  /\ NonEmptyText(party.companyId)
  /\ party.address.present
  /\ NonEmptyText(party.address.street)
  /\ NonEmptyText(party.address.city)
  /\ NonEmptyText(party.address.postalZone)

LineInvariant(line) ==
  /\ NonEmptyText(line.name)
  /\ IsNumber(line.quantity) /\ NumLess(NumZero, line.quantity.n)
  /\ IsNumber(line.unitPrice) /\ NumLessEq(NumZero, line.unitPrice.n)
  /\ \/ line.taxPercent.t = "undefined"
     \/ /\ IsNumber(line.taxPercent)
        /\ NumLessEq(NumZero, line.taxPercent.n)
        /\ NumLessEq(line.taxPercent.n, NumLit(FALSE, 100, 0))

InputInvariant(in) ==
  /\ in.present
  /\ NonEmptyText(in.invoiceNumber)
  /\ in.issueDate
  /\ PartyInvariant(in.supplier)
  /\ PartyInvariant(in.customer)
  /\ in.lines.def /\ in.lines.array
  /\ \A k \in 1..Len(in.lines.items) : LineInvariant(in.lines.items[k])

\* The tax percent of a line: 0 when it is absent
PercentOf(line) == IF IsNumber(line.taxPercent) THEN line.taxPercent.n ELSE NumZero

\* The category the selection policy gives a line
PolicyCategory(line) ==
  IF ~input.supplier.isVatPayer THEN "O"
  ELSE IF NumLess(NumZero, PercentOf(line)) THEN "S"
  ELSE "Z"

PairOf(k) == <<PolicyCategory(LineAt(k)), PercentOf(LineAt(k))>>

GroupPair(g) == <<g.categoryId, g.percent>>

VatexEuO == Str(<<"V", "A", "T", "E", "X", "-", "E", "U", "-", "O">>)

\* C1: every line of a valid invoice is grouped, and emitted, under the
\* category the policy gives it ("O" when the supplier is no VAT payer,
\* whatever the percent; else "S" for a percent > 0 and "Z" for 0 or none);
\* a group carries the exemption reason code VATEX-EU-O when its category is
\* "O" and none otherwise, in the map and in the emitted subtotals.
C1_TaxCategoryPolicy ==
  InputInvariant(input) =>
    /\ \A k \in 1..Processed :
         \E i \in 1..Len(taxGroups) :
            /\ GroupPair(taxGroups[i].value) = PairOf(k)
            /\ taxGroups[i].value.exemptionReasonCode =
                 (IF PolicyCategory(LineAt(k)) = "O" THEN VatexEuO ELSE Undefined)
    /\ \A i \in 1..Len(taxGroups) :
         /\ taxGroups[i].value.categoryId \in {"O", "S", "Z"}
         /\ taxGroups[i].value.exemptionReasonCode.def
              <=> taxGroups[i].value.categoryId = "O"
    /\ pc = "done" =>
         /\ \A k \in 1..Len(doc.lines) :
              doc.lines[k].categoryId = PolicyCategory(LineAt(k))
         /\ \A i \in 1..Len(doc.subtotals) :
              doc.subtotals[i].exemptionReasonCode =
                (IF doc.subtotals[i].categoryId = "O" THEN VatexEuO ELSE Undefined)

\* C1 witness: a document of a supplier that is no VAT payer, with a line at
\* a percent > 0 grouped under "O" with the exemption reason code
C1_Witness ==
  /\ pc = "done" /\ InputInvariant(input) /\ ~input.supplier.isVatPayer
  /\ \E k \in 1..Len(input.lines.items) : NumLess(NumZero, PercentOf(LineAt(k)))
  /\ \E i \in 1..Len(doc.subtotals) :
       doc.subtotals[i].categoryId = "O" /\ doc.subtotals[i].exemptionReasonCode = VatexEuO

\* C2: after any number of lines, the map holds exactly one group for each
\* (category, percent) pair occurring among the lines gone through and none
\* for another pair, so every line falls in exactly one group.
C2_GroupsPartitionLines ==
  /\ \A i, j \in 1..Len(taxGroups) :
       GroupPair(taxGroups[i].value) = GroupPair(taxGroups[j].value) => i = j
  /\ {GroupPair(taxGroups[i].value) : i \in 1..Len(taxGroups)}
       = {PairOf(k) : k \in 1..Processed}
  /\ \A k \in 1..Processed :
       Cardinality({i \in 1..Len(taxGroups) : GroupPair(taxGroups[i].value) = PairOf(k)}) = 1

\* C2 witness: three lines went into two groups
C2_Witness ==
  pc = "done" /\ Len(input.lines.items) = 3 /\ Len(taxGroups) = 2

\* Decimal arithmetic on texts with two fraction digits; NaN absorbs
TextAdd(a, b) ==
  IF a.nan \/ b.nan THEN TextNaN ELSE [nan |-> FALSE, cents |-> a.cents + b.cents]

RECURSIVE TextSum(_)
TextSum(texts) ==
  IF texts = <<>> THEN TextZero ELSE TextAdd(Head(texts), TextSum(Tail(texts)))

\* The rounded line extension and the rounded tax amount of line k
ExtensionOf(k) == ToFixed2(calculateLineExtension(LineAt(k)))

TaxOf(k) ==
  ToFixed2(lineTaxAmount(calculateLineExtension(LineAt(k)), PercentOf(LineAt(k))))

\* Decimal sums over the lines 1..n whose pair is pr
RECURSIVE SumExtensions(_, _)
SumExtensions(n, pr) ==
  IF n = 0 THEN TextZero
  ELSE TextAdd(SumExtensions(n - 1, pr), IF PairOf(n) = pr THEN ExtensionOf(n) ELSE TextZero)

RECURSIVE SumTaxes(_, _)
SumTaxes(n, pr) ==
  IF n = 0 THEN TextZero
  ELSE TextAdd(SumTaxes(n - 1, pr), IF PairOf(n) = pr THEN TaxOf(n) ELSE TextZero)

\* C3: after every line, each group's taxable amount is the number with two
\* decimals that equals the decimal sum of the rounded line extensions of its
\* lines, and its tax amount the one that equals the decimal sum of their
\* rounded tax amounts: the running sums are rounded after each addition.
\* (The Map changes in the iterations of groupLinesByTax only, so the states
\* of the iterations are all the values it takes.)
C3_GroupAmountsAreRoundedSums ==
  pc = "validated" =>
  \A i \in 1..Len(taxGroups) :
     /\ taxGroups[i].value.taxableAmount =
          ParseFloat(SumExtensions(Processed, GroupPair(taxGroups[i].value)))
     /\ taxGroups[i].value.taxAmount =
          ParseFloat(SumTaxes(Processed, GroupPair(taxGroups[i].value)))

\* C3 witness: three lines with a tax amount went into one group, two additions
C3_Witness ==
  /\ pc = "validated" /\ index = 4 /\ Len(taxGroups) = 1
  /\ ~taxGroups[1].value.taxAmount.nan /\ ~NumIsZero(taxGroups[1].value.taxAmount)
  /\ LineAt(1) # LineAt(2) /\ LineAt(2) # LineAt(3) /\ LineAt(1) # LineAt(3)

\* The pairs of the lines 1..n in the order of their first occurrence
RECURSIVE FirstSeenPairs(_)
FirstSeenPairs(n) ==
  IF n = 0 THEN <<>>
  ELSE LET before == FirstSeenPairs(n - 1)
       IN IF \E j \in 1..Len(before) : before[j] = PairOf(n) THEN before
          ELSE Append(before, PairOf(n))

\* C4: the groups stand in the map, and their subtotals in the document, in
\* the order in which their (category, percent) pairs first occur in the lines.
C4_GroupsInFirstSeenOrder ==
  /\ [i \in 1..Len(taxGroups) |-> GroupPair(taxGroups[i].value)] = FirstSeenPairs(Processed)
  /\ (pc = "done" /\ Len(input.lines.items) > 0) =>
       [i \in 1..Len(doc.subtotals) |-> <<doc.subtotals[i].categoryId, doc.subtotals[i].percent>>]
         = [i \in 1..Len(FirstSeenPairs(Processed)) |->
              <<FirstSeenPairs(Processed)[i][1], ToFixed2(FirstSeenPairs(Processed)[i][2])>>]

\* C4 witness: a document whose first subtotal has the larger percent, its
\* pair occurring again after the pair of the second
C4_Witness ==
  /\ pc = "done" /\ Len(input.lines.items) = 3 /\ Len(doc.subtotals) = 2
  /\ PairOf(1) = PairOf(3) /\ PairOf(1) # PairOf(2)
  /\ doc.subtotals[1].percent.cents > doc.subtotals[2].percent.cents

\* C5: the emitted price of a line is its unit price rounded to 2 decimals,
\* and the emitted line extension is the product of the unrounded quantity
\* and that rounded price, rounded to 2 decimals; quantity 3 at 33.333333
\* gives 33.33 and 99.99.
C5_LineExtensionRounding ==
  pc = "done" =>
    \A k \in 1..Len(doc.lines) :
       /\ doc.lines[k].priceAmount = ToFixed2(LineAt(k).unitPrice.n)
       /\ doc.lines[k].lineExtensionAmount =
            ToFixed2(NumMul(LineAt(k).quantity.n, ParseFloat(doc.lines[k].priceAmount)))
       /\ (LineAt(k).quantity.n = NumLit(FALSE, 3, 0)
             /\ LineAt(k).unitPrice.n = NumLit(FALSE, 33333333, 6))
            => /\ doc.lines[k].priceAmount = [nan |-> FALSE, cents |-> 3333]
               /\ doc.lines[k].lineExtensionAmount = [nan |-> FALSE, cents |-> 9999]

\* C5 witness: a document with the line of quantity 3 at 33.333333 and one
\* with a quantity of three decimals
C5_Witness ==
  /\ pc = "done"
  /\ \E k \in 1..Len(doc.lines) :
       LineAt(k).unitPrice.n = NumLit(FALSE, 33333333, 6)
         /\ doc.lines[k].lineExtensionAmount.cents = 9999
  /\ \E k \in 1..Len(doc.lines) :
       LineAt(k).quantity.n = NumLit(FALSE, 333, 3)
         /\ doc.lines[k].lineExtensionAmount.cents = 333

\* cents * (d.n / 10^d.dec) / 100 rounded half-up to a whole number of cents
HalfUpCents(cents, d) ==
  (2 * cents * d.n + 10^(d.dec + 2)) \div (2 * 10^(d.dec + 2))

\* C6: for every line that satisfies the line invariants, the tax amount is
\* its rounded line extension times its percent over 100, rounded half-up to
\* 2 decimals.
C6_LineTaxIsHalfUp ==
  \A k \in 1..Processed :
     LineInvariant(LineAt(k)) =>
       TaxOf(k) = [nan |-> FALSE,
                   cents |-> HalfUpCents(ExtensionOf(k).cents,
                                         ShortestDecimal(PercentOf(LineAt(k)), 0))]

\* The amounts of the groups as the texts with two decimals they stand for
GroupTaxableAmounts == [i \in 1..Len(taxGroups) |-> ToFixed2(taxGroups[i].value.taxableAmount)]

GroupTaxAmounts == [i \in 1..Len(taxGroups) |-> ToFixed2(taxGroups[i].value.taxAmount)]

\* C7: in a generated document the line-extension total and the
\* tax-exclusive total are the decimal sum of the groups' taxable amounts,
\* the tax total is the decimal sum of the groups' tax amounts, and the
\* tax-inclusive and the payable amount are the sum of the two.
C7_DocumentTotals ==
  pc = "done" =>
    /\ doc.lineExtensionAmount = TextSum(GroupTaxableAmounts)
    /\ doc.taxExclusiveAmount = TextSum(GroupTaxableAmounts)
    /\ doc.taxAmount = TextSum(GroupTaxAmounts)
    /\ doc.taxInclusiveAmount = TextAdd(TextSum(GroupTaxableAmounts), TextSum(GroupTaxAmounts))
    /\ doc.payableAmount = TextAdd(TextSum(GroupTaxableAmounts), TextSum(GroupTaxAmounts))

\* C7 witness: a document over two groups with tax, totals above the groups'
C7_Witness ==
  /\ pc = "done" /\ Len(taxGroups) = 2
  /\ \A i \in 1..2 : ~ToFixed2(taxGroups[i].value.taxAmount).nan
                       /\ ToFixed2(taxGroups[i].value.taxAmount).cents > 0
  /\ doc.taxAmount.cents > ToFixed2(taxGroups[1].value.taxAmount).cents
  /\ doc.payableAmount.cents > doc.taxExclusiveAmount.cents

\* The single tax subtotal of a document without lines
DefaultSubtotal ==
  [taxableAmount |-> TextZero, taxAmount |-> TextZero, categoryId |-> "S",
   percent |-> TextZero, exemptionReasonCode |-> Undefined]

\* C8: an input with a valid header and an empty lines array is not
\* rejected; its group sequence is empty, its totals are 0.00, its document
\* has no invoice line and exactly the default tax subtotal.
C8_EmptyLinesAccepted ==
  (InputInvariant(input) /\ input.lines.items = <<>>) =>
    /\ pc # "failed"
    /\ taxGroups = <<>>
    /\ pc \in {"totalled", "done"} =>
         /\ ToFixed2(totals.totalTaxableAmount) = TextZero
         /\ ToFixed2(totals.totalTaxAmount) = TextZero
         /\ ToFixed2(totals.grandTotal) = TextZero
    /\ pc = "done" =>
         /\ doc.produced
         /\ doc.lines = <<>>
         /\ doc.subtotals = <<DefaultSubtotal>>
         /\ doc.lineExtensionAmount = TextZero /\ doc.taxExclusiveAmount = TextZero
         /\ doc.taxAmount = TextZero
         /\ doc.taxInclusiveAmount = TextZero /\ doc.payableAmount = TextZero

\* C8 witness: the document of an input with an empty lines array
C8_Witness ==
  /\ pc = "done" /\ doc.produced
  /\ input.lines.def /\ input.lines.items = <<>>
  /\ Len(doc.subtotals) = 1

\* The error of the first rule a party violates, NoError when it violates none
PartyViolation(party, role) ==
  IF ~NonEmptyText(party.registrationName)
    THEN ValidationError(<<role, "registration name is required">>)
  ELSE IF ~NonEmptyText(party.companyId)
    THEN ValidationError(<<role, "company ID is required">>)
  ELSE IF ~party.address.present THEN ValidationError(<<role, "address is required">>)
  ELSE IF ~NonEmptyText(party.address.street)
    THEN ValidationError(<<role, "street address is required">>)
  ELSE IF ~NonEmptyText(party.address.city)
    THEN ValidationError(<<role, "city is required">>)
  ELSE IF ~NonEmptyText(party.address.postalZone)
    THEN ValidationError(<<role, "postal zone is required">>)
  ELSE NoError

\* The error of the first rule line k violates: name, quantity strictly
\* positive, unit price non-negative, tax percent in [0,100] when present
LineViolation(line, k) ==
  IF ~NonEmptyText(line.name) THEN LineError(k, <<"Line", "Name is required">>)
  ELSE IF ~(IsNumber(line.quantity) /\ NumLess(NumZero, line.quantity.n))
    THEN LineError(k, <<"Line", "Quantity must be a positive number">>)
  ELSE IF ~(IsNumber(line.unitPrice) /\ NumLessEq(NumZero, line.unitPrice.n))
    THEN LineError(k, <<"Line", "Unit price must be a non-negative number">>)
  ELSE IF ~LineInvariant(line)
    THEN LineError(k, <<"Line", "Tax percent must be between 0 and 100">>)
  ELSE NoError

\* The first line from k on that violates a rule, 0 when none does
RECURSIVE FirstBadLine(_, _)
FirstBadLine(lines, k) ==
  IF k > Len(lines) THEN 0
  ELSE IF ~LineInvariant(lines[k]) THEN k
  ELSE FirstBadLine(lines, k + 1)

\* The error of the first violation of an input, in the fixed order
FirstViolation(in) ==
  IF ~in.present THEN ValidationError(<<"Invoice input data is required">>)
  ELSE IF ~NonEmptyText(in.invoiceNumber)
    THEN ValidationError(<<"Invoice number is required">>)
  ELSE IF ~in.issueDate THEN ValidationError(<<"Issue date is required">>)
  ELSE IF ~in.supplier.present THEN ValidationError(<<"Supplier information is required">>)
  ELSE IF ~PartyInvariant(in.supplier) THEN PartyViolation(in.supplier, "Supplier")
  ELSE IF ~in.customer.present THEN ValidationError(<<"Customer information is required">>)
  ELSE IF ~PartyInvariant(in.customer) THEN PartyViolation(in.customer, "Customer")
  ELSE IF ~(in.lines.def /\ in.lines.array) THEN ValidationError(<<"Invoice lines array is required">>)
  ELSE IF FirstBadLine(in.lines.items, 1) # 0
    THEN LineViolation(in.lines.items[FirstBadLine(in.lines.items, 1)],
                       FirstBadLine(in.lines.items, 1))
  ELSE NoError

\* C9: the error raised for an input is the one of its first violation in
\* the fixed order: invoice number, issue date, supplier, customer, lines
\* array, then the lines in sequence and, within a line, name, quantity,
\* unit price, tax percent.
C9_FirstViolationIsRaised ==
  pc = "failed" => error = FirstViolation(input)

\* C10: a build goes past validation only for an input that satisfies every
\* input invariant, every other input raises a validation error, and a line
\* error names the 1-based index of a line that violates a line invariant.
C10_DocumentOnlyForValidInput ==
  /\ pc \in {"validated", "totalled", "done"} => InputInvariant(input)
  /\ pc = "failed" => ~InputInvariant(input) /\ error # NoError
  /\ (pc = "failed" /\ error.line # 0) =>
       /\ error.line \in 1..Len(input.lines.items)
       /\ ~LineInvariant(LineAt(error.line))

\* C11: UblBuilder.generateInvoiceXml returns the document buildInvoiceXml
\* returned, or raises an AnafValidationError when buildInvoiceXml threw,
\* whatever the class of the error thrown; it has no other outcome.
C11_GenerateReturnsOrValidationError ==
  /\ generated.kind \in {"none", "returned", "AnafValidationError"}
  /\ generated.kind = "returned" => pc = "done" /\ doc.produced /\ generated.data = doc
  /\ generated.kind = "AnafValidationError" => pc = "failed" /\ generated.cause = error
  /\ (generated.kind # "none" /\ pc = "failed") => generated.kind = "AnafValidationError"

\* C11 witness: buildInvoiceXml threw a TypeError and generateInvoiceXml
\* raised an AnafValidationError
C11_Witness ==
  generated.kind = "AnafValidationError" /\ generated.cause.kind = "TypeError"

\* A failed call kept nothing: no tax group and no total when it failed in
\* validation, no document in any case
NothingKeptOnFailure ==
  /\ (pc = "failed" /\ error.kind = "AnafValidationError") =>
       (taxGroups = <<>> /\ index = 1 /\ totals = NoTotals)
  /\ pc = "failed" => (doc = NoDocument /\ generated.kind # "returned")

\* C12: a call that failed has computed no tax group when it failed in
\* validation and has produced no document in any case, and no step of a
\* call changes the input.
C12_NoPartialOutputInputUnchanged ==
  []NothingKeptOnFailure /\ [][input' = input]_vars

\* C12 witness: validation failed at the second line, the first one valid
C12_Witness ==
  /\ pc = "failed" /\ error.line = 2
  /\ LineInvariant(LineAt(1)) /\ taxGroups = <<>>

\* C13: a call that is over has the outcome (document returned or error
\* thrown) of every earlier call with the same input, whatever calls were
\* made in between.
C13_SameInputSameOutput ==
  \A k \in 1..Len(history) :
     (history[k].input = input /\ pc \in {"done", "failed"}) =>
       /\ history[k].pc = pc
       /\ history[k].doc = doc
       /\ history[k].error = error

\* C13 witness: the third call returned the document of the first, a call
\* with another input in between
C13_Witness ==
  /\ Len(history) = 2 /\ history[1].input = input /\ history[2].input # input
  /\ history[2].pc = "done" /\ Len(history[2].doc.lines) > 0
  /\ pc = "done" /\ doc.produced /\ Len(doc.subtotals) = 2

\* C16: the document has one line element per input line, in input order:
\* element i carries the name of line i, and its id is the text of the
\* line's own id when the line has one (a number or a non-empty string),
\* otherwise its 1-based position i; with no id at all the ids are 1..N
HasId(line) == line.id.t = "number" \/ (line.id.t = "string" /\ line.id.s # <<>>)

OwnId(line) == IF line.id.t = "number" THEN Digits(line.id.n) ELSE line.id.s

C16_LineIdsInInputOrder ==
  doc.produced =>
    /\ Len(doc.lines) = Len(input.lines.items)
    /\ \A i \in 1..Len(doc.lines) :
         /\ doc.lines[i].name = LineAt(i).name.s
         /\ doc.lines[i].id = (IF HasId(LineAt(i)) THEN OwnId(LineAt(i)) ELSE Digits(i))
    /\ ((\A i \in 1..Len(doc.lines) : LineAt(i).id.t = "undefined")
          => [i \in 1..Len(doc.lines) |-> doc.lines[i].id]
               = [i \in 1..Len(doc.lines) |-> Digits(i)])

\* A document of two lines, the first without an id and the second with one
C16_Witness ==
  /\ doc.produced
  /\ Len(doc.lines) = 2
  /\ LineAt(1).id.t = "undefined" /\ LineAt(1).name.s # LineAt(2).name.s
  /\ LineAt(2).id = IdNumber(7)
  /\ doc.lines[1].id = <<"1">> /\ doc.lines[2].id = <<"7">>

\* The results the tests of sanitizeCounty expect ("" stands for null)
CountyCases ==
  { <<Undefined, "">>, <<Text(""), "">>, <<Text("   "), "">>,
    <<Text("cluj"), "RO-CJ">>, <<Text("Alba"), "RO-AB">>, <<Text("IASI"), "RO-IS">>,
    <<Text("ilfov"), "RO-IF">>, <<Text("botosani"), "RO-BT">>, <<Text("buzau"), "RO-BZ">>,
    <<Iasi, "RO-IS">>, <<Dambovita, "RO-DB">>, <<Timis("comma"), "RO-TM">>,
    <<Valcea, "RO-VL">>, <<Timis("cedilla"), "RO-TM">>, <<Dimbovita, "RO-DB">>,
    <<Text("bistrita-nasaud"), "RO-BN">>, <<Text("BISTRITA_NASAUD"), "RO-BN">>,
    <<Text("bistrita.nasaud"), "RO-BN">>, <<Text("bistrita, nasaud"), "RO-BN">>,
    <<Text("satu-mare"), "RO-SM">>, <<Text("satu_mare"), "RO-SM">>,
    <<Text("caras-severin"), "RO-CS">>, <<Text("caras_severin"), "RO-CS">>,
    <<Text("caras,severin"), "RO-CS">>,
    <<Text("judetul cluj"), "RO-CJ">>, <<JudetulCluj, "RO-CJ">>,
    <<Text("municipiul iasi"), "RO-IS">>, <<Text("Mun. Iasi"), "RO-IS">>,
    <<Text("orasul constanta"), "RO-CT">>, <<Text("comuna cluj"), "RO-CJ">>,
    <<Text("municipiul bucuresti"), "RO-B">>, <<Text("mun bucuresti"), "RO-B">>,
    <<Text("bucuresti"), "RO-B">>, <<Bucuresti("", "comma"), "RO-B">>,
    <<Text("buc"), "RO-B">>, <<Text("BUC"), "RO-B">>,
    <<Text("vilcea"), "RO-VL">>, <<Text("Vilcea"), "RO-VL">>,
    <<Text("transilvania"), "">>, <<Text("unknown county"), "">>,
    <<Text("sector 1"), "">> }

\* The 41 county codes and RO-B
CountyCodes == {COUNTY_CODES[i][1] : i \in 1..Len(COUNTY_CODES)}

RECURSIVE JoinChars(_)
JoinChars(s) == IF s = <<>> THEN "" ELSE Head(s) \o JoinChars(Tail(s))

\* The code a text stands for, "" for null
CodeOf(x) == IF x.def THEN JoinChars(x.s) ELSE ""

\* C17: sanitizeCounty returns null or one of the 42 county codes; null for
\* a null, empty or blank text; otherwise the code of the normalized text
\* when the table has it, else the code of the normalized text without its
\* leading and trailing qualifier words, else null; and the results the
\* tests expect ("Mun. Iasi" gives RO-IS, "sector 1" and "transilvania" null)
C17_SanitizeCounty ==
  "sanitizeCounty" \in sanitizer.called =>
    LET text == sanitizer.text
        words == normalizedWords(text.s, "")
        direct == {i \in 1..Len(COUNTY_CODES) : COUNTY_CODES[i][2] = words}
        retry == {i \in 1..Len(COUNTY_CODES) : COUNTY_CODES[i][2] = stripAdminWords(words)}
        result == CodeOf(sanitizer.county)
    IN /\ Cardinality(CountyCodes) = 42
       /\ result \in CountyCodes \cup {""}
       /\ Blank(text) => result = ""
       /\ ~Blank(text) /\ direct # {} => \A i \in direct : result = COUNTY_CODES[i][1]
       /\ ~Blank(text) /\ direct = {} /\ retry # {} =>
            \A i \in retry : result = COUNTY_CODES[i][1]
       /\ ~Blank(text) /\ direct = {} /\ retry = {} => result = ""
       /\ \A c \in CountyCases : c[1] = text => result = c[2]

\* "Mun. Iasi" is found by the second lookup only
C17_Witness ==
  /\ "sanitizeCounty" \in sanitizer.called
  /\ sanitizer.text = Text("Mun. Iasi")
  /\ ~sanitizeCountyDirectOnly(sanitizer.text).def
  /\ sanitizer.county = Text("RO-IS")

\* The results the tests of sanitizeBucharestSector expect (0 stands for null)
SectorCases ==
  { <<Undefined, 0>>, <<Text(""), 0>>, <<Text("   "), 0>>,
    <<Text("sector 1"), 1>>, <<Text("Sectorul 2"), 2>>, <<Text("SECTOR3"), 3>>,
    <<Text("sector 06"), 6>>, <<Text("sector06"), 6>>, <<Text("sectorul06"), 6>>,
    <<Text("s1"), 1>>, <<Text("S2"), 2>>, <<Text("s06"), 6>>,
    <<Text("Sector 4 Bucuresti"), 4>>, <<Text("Bucuresti sector 5"), 5>>,
    <<Text("Sectorul_6"), 6>>, <<Text("Sect. 3"), 3>>,
    <<Bucuresti("Sector 3 Mun. ", "cedilla"), 3>>,
    <<Text("sector 0"), 0>>, <<Text("sector 7"), 0>>, <<Text("sectorul 9"), 0>>,
    <<Text("s0"), 0>>, <<Text("s7"), 0>>, <<Text("bucuresti"), 0>>, <<Text("ilfov"), 0>> }

\* The sector a result stands for, 0 for null and 7 for any other text
SectorOf(x) ==
  IF ~x.def THEN 0
  ELSE IF \E n \in 1..6 : x.s = Chars("SECTOR") \o <<DigitChar(n)>>
    THEN CHOOSE n \in 1..6 : x.s = Chars("SECTOR") \o <<DigitChar(n)>>
    ELSE 7

\* C18: sanitizeBucharestSector returns null or one of SECTOR1 .. SECTOR6,
\* the number never padded; it returns a sector exactly when the normalized
\* text has a sector token with a number from 1 to 6 (06 counts as 6, the
\* other words are ignored), and that sector is the number of the first such
\* token; null, empty and blank texts, numbers outside 1..6 and texts
\* without a token give null; and the results the tests expect
C18_SanitizeBucharestSector ==
  "sanitizeBucharestSector" \in sanitizer.called =>
    LET text == sanitizer.text
        words == normalizedWords(text.s, "")
        tokens == {i \in 1..Len(words) : sectorTokenAt(words, i) \in 1..6}
        result == SectorOf(sanitizer.sector)
    IN /\ result \in 0..6
       /\ Blank(text) => result = 0
       /\ result # 0 <=> ~Blank(text) /\ tokens # {}
       /\ result # 0 =>
            \E i \in tokens : /\ sectorTokenAt(words, i) = result
                              /\ \A j \in tokens : i <= j
       /\ \A c \in SectorCases : c[1] = text => result = c[2]

\* "sector 06 s4": the padded number 6 of the first token, SECTOR6
C18_Witness ==
  /\ "sanitizeBucharestSector" \in sanitizer.called
  /\ sanitizer.text = Text("sector 06 s4")
  /\ sanitizer.sector = Text("SECTOR6")

\* The city element a party must carry: the sector code of its city text
\* (empty when the text has no sector) if its county is Bucharest, its city
\* text as it was given otherwise
CityRule(address, emitted) ==
  IF sanitizeCounty(address.county) = Text("RO-B")
    THEN emitted = OrEmpty(sanitizeBucharestSector(address.city))
    ELSE emitted = address.city.s

\* C14: in a document of a valid input, the city of the supplier and the city
\* of the customer follow the rule: sector code instead of the city text when
\* the county normalizes to RO-B, the city text unchanged when it does not
\* (no county, or a text that is no county)
C14_CityOfParty ==
  doc.produced /\ InputInvariant(input) =>
    /\ CityRule(input.supplier.address, doc.supplier.cityName)
    /\ CityRule(input.customer.address, doc.customer.cityName)

\* A supplier of Bucharest whose city is emitted as SECTOR6 and a customer of
\* another county whose city "sector 1" is emitted as it is
C14_Witness ==
  /\ doc.produced /\ InputInvariant(input)
  /\ input.supplier.address.county = Text("Municipiul Bucuresti")
  /\ input.supplier.address.city = Text("sectorul 06, Bucuresti")
  /\ doc.supplier.cityName = Chars("SECTOR6")
  /\ input.customer.address.county = Text("Gorj")
  /\ doc.customer.cityName = Chars("sector 1")

\* C15: a call with a valid input ends with a document whatever the county
\* texts are, and a county that is absent, empty, blank or no county of the
\* table is emitted as the empty text
C15_CountyNeverFails ==
  pc \in {"done", "failed"} /\ InputInvariant(input) =>
    /\ doc.produced
    /\ \A party \in {"supplier", "customer"} :
         ~sanitizeCounty(input[party].address.county).def
           => doc[party].countrySubentity = <<>>

\* A document whose supplier has the county "transilvania"
C15_Witness ==
  /\ doc.produced /\ InputInvariant(input)
  /\ input.supplier.address.county = Text("transilvania")
  /\ doc.supplier.countrySubentity = <<>>
  /\ doc.customer.countrySubentity = Chars("RO-GJ")

\* Not a positive number
NotPositive(x) == ~(x.t = "number" /\ NumLess(NumZero, x.n))

\* The arguments that fail the validation of the client: blank XML content,
\* blank upload or download id, zile outside 1..60, a start or end time that
\* is not positive, endTime <= startTime, pagina < 1, an upload standard
\* outside UBL/CN/CII/RASP, a document standard outside FACT1/FCN
FailsValidation(op, a) ==
  \/ /\ op \in {"uploadDocument", "uploadB2CDocument", "validateXml", "convertXmlToPdf",
                "convertXmlToPdfNoValidation"}
     /\ Blank(a.xmlContent)
  \/ op \in {"getUploadStatus", "downloadDocument"} /\ Blank(a.id)
  \/ op = "getMessages" /\ a.hasParams /\ ~isValidDaysParameter(a.zile)
  \/ /\ op = "getMessagesPaginated" /\ a.hasParams
     /\ \/ NotPositive(a.startTime) \/ NotPositive(a.endTime)
        \/ NumLessEq(a.endTime.n, a.startTime.n)
        \/ a.pagina.t = "number" /\ NumLess(a.pagina.n, NumLit(FALSE, 1, 0))
  \/ /\ op \in {"uploadDocument", "uploadB2CDocument"}
     /\ a.standard # "" /\ a.standard \notin {"UBL", "CN", "CII", "RASP"}
  \/ /\ op \in {"validateXml", "convertXmlToPdf", "convertXmlToPdfNoValidation"}
     /\ a.standard # "" /\ a.standard \notin {"FACT1", "FCN"}

\* C19: an operation whose arguments fail the validation of the client fails
\* with AnafValidationError, and issues no token refresh and no HTTP request
C19_InvalidArgumentsIssueNothing ==
  /\ client.op # "none" /\ client.pc # "validating"
  /\ FailsValidation(client.op, client.args)
  => /\ client.outcome.rejected
     /\ client.outcome.error.kind = "AnafValidationError"
     /\ client.refreshes = 0
     /\ client.requests = 0

\* The class the claim gives to a status that is not 2xx
ClassOfStatus(status) ==
  IF status \in {401, 403} THEN "AnafAuthenticationError"
  ELSE IF status = 404 THEN "AnafNotFoundError"
  ELSE IF status \in 400..499 THEN "AnafValidationError"
  ELSE "AnafApiError"

\* C20: when the response of the request of an operation has a status that
\* is not 2xx, HttpClient.request rejects with the error class of the status
\* (401, 403: AnafAuthenticationError; 404: AnafNotFoundError; other 4xx:
\* AnafValidationError; any other: AnafApiError) and the operation rejects
\* with the same error
C20_HttpStatusErrorClass ==
  client.response.received /\ client.response.status \notin 200..299 =>
    /\ client.raised.rejected
    /\ client.raised.error.kind = ClassOfStatus(client.response.status)
    /\ client.outcome = client.raised

\* getUploadStatus answered with 404 fails with AnafNotFoundError
C20_Witness ==
  /\ client.op = "getUploadStatus"
  /\ client.response = Response(404)
  /\ client.requests = 1
  /\ client.outcome.rejected
  /\ client.outcome.error.kind = "AnafNotFoundError"

\* The sum of digit times key digit over the first n digits of code
RECURSIVE KeySum(_, _, _)
KeySum(code, key, n) ==
  IF n = 0 THEN 0
  ELSE KeySum(code, key, n - 1) + key[n] * (CHOOSE d \in 0..9 : code[n] = DigitChar(d))

\* C21: isValidCNP(code) is true exactly when code is thirteen zeros, or code
\* is 13 decimal digits whose first digit is 1 to 9 and whose 13th digit is
\* the control digit c, where r is the sum over the first 12 digits of digit
\* times the matching digit of the key 279146358279, modulo 11, and c is 1
\* when r is 10 and r otherwise; every other string gives false
C21_IsValidCNP ==
  (details.call = "isValidCNP" /\ details.pc = "returned") =>
    LET code == details.cnp
        key == <<2, 7, 9, 1, 4, 6, 3, 5, 8, 2, 7, 9>>
        thirteenDigits ==
          Len(code) = 13 /\ \A i \in 1..13 : \E d \in 0..9 : code[i] = DigitChar(d)
        r == KeySum(code, key, 12) % 11
        c == IF r = 10 THEN 1 ELSE r
    IN details.result <=>
         /\ thirteenDigits
         /\ \/ \A i \in 1..13 : code[i] = "0"
            \/ /\ code[1] \in {DigitChar(d) : d \in 1..9}
               /\ code[13] = DigitChar(c)

\* A code whose remainder is 10 and whose last digit is 1 is found valid
C21_Witness ==
  /\ details.call = "isValidCNP"
  /\ details.pc = "returned"
  /\ details.cnp = Chars("2960129460011")
  /\ KeySum(details.cnp, <<2, 7, 9, 1, 4, 6, 3, 5, 8, 2, 7, 9>>, 12) % 11 = 10
  /\ details.result

\* What remains of a code after trimming and removing an RO prefix
RestOfVatCode(x) ==
  LET t == Trim(x.s)
  IN IF Len(t) >= 2 /\ t[1] \in {"R", "r"} /\ t[2] \in {"O", "o"}
       THEN SubSeq(t, 3, Len(t)) ELSE t

\* A valid VAT code: what remains is 2 to 10 decimal digits that write a
\* number greater than 0
VatRule(x) ==
  /\ x.def
  /\ Len(RestOfVatCode(x)) \in 2..10
  /\ \A i \in 1..Len(RestOfVatCode(x)) : \E d \in 0..9 : RestOfVatCode(x)[i] = DigitChar(d)
  /\ \E i \in 1..Len(RestOfVatCode(x)) : RestOfVatCode(x)[i] # "0"

\* C26: isValidVatCode returns true exactly when, after trimming and removing
\* an optional RO prefix, what remains is decimal digits only, is 2 to 10
\* characters long and denotes a number greater than 0; it returns false for
\* every other input
C26_IsValidVatCode ==
  (details.call = "isValidVatCode" /\ details.pc = "returned") =>
    (details.result <=> VatRule(details.vatCode))

\* The CUI of a valid code: the number its digits write
CuiOf(x) == StripZeros(RestOfVatCode(x))

\* C22: batchGetCompanyData (and getCompanyData through it) sends no HTTP
\* request and returns a result with success = false when the code list is
\* empty or every supplied VAT code is invalid; when at least one code is
\* valid it sends exactly one POST whose body lists the CUIs of the valid
\* codes only, in input order
C22_BatchRequests ==
  (details.call \in {"batchGetCompanyData", "getCompanyData"} /\ details.pc # "start") =>
    LET valid == SelectSeq(details.vatCodes.items, VatRule)
    IN IF valid = <<>>
         THEN details.posts = <<>> /\ details.pc = "returned" /\ ~details.success
         ELSE details.posts = <<[i \in 1..Len(valid) |-> CuiOf(valid[i])]>>

\* The operation has gone through getValidAccessToken
TokenDecided ==
  client.pc \in {"refreshing", "request"} \/ client.refreshes + client.requests > 0

\* When the operation was called a token was cached and the time was more
\* than 30 seconds before its recorded expiry
CachedAndFresh ==
  /\ client.atCall.currentAccessToken # 0
  /\ client.atCall.accessTokenExpiresAt - client.now > 30000

\* The refresh of the operation was answered with tokens
RefreshSucceeded ==
  /\ ~Blank(client.used)
  /\ client.answer.response.received
  /\ client.answer.response.status \in 200..299
  /\ client.answer.data.access_token # 0

\* C23: for operations run one after another on one client, an operation
\* sends its request with the cached access token and calls no refresh
\* exactly when a token is cached and the current time is more than 30
\* seconds before its recorded expiry; otherwise it performs exactly one
\* refresh and, that refresh answered with tokens, sends the request with the
\* access token the refresh returned
C23_CachedTokenOrOneRefresh ==
  TokenDecided =>
    IF CachedAndFresh
      THEN /\ client.refreshes = 0
           /\ client.accessToken = client.atCall.currentAccessToken
           /\ client.pc = "idle" => client.requests = 1
      ELSE /\ client.refreshes = 1
           /\ client.pc # "refreshing" =>
                IF RefreshSucceeded
                  THEN /\ client.accessToken = client.answer.data.access_token
                       /\ client.pc = "idle" => client.requests = 1
                  ELSE client.pc = "idle" /\ client.requests = 0

\* The second operation finds a token exactly 30 seconds before its expiry:
\* it refreshes and sends the new token
C23_Witness ==
  /\ client.calls = 2
  /\ client.pc = "idle"
  /\ client.atCall.currentAccessToken = 1
  /\ client.atCall.accessTokenExpiresAt - client.now = 30000
  /\ client.refreshes = 1
  /\ client.requests = 1
  /\ client.accessToken = 2

\* C24: after a successful token refresh the stored refresh token is the one
\* in the response when the response carries a non-empty refresh_token, and
\* is unchanged otherwise; every refresh uses the refresh token stored at the
\* moment it starts
C24_StoredRefreshToken ==
  /\ client.refreshes = 1 => client.used = client.atCall.refreshToken
  /\ (client.refreshes = 1 /\ client.pc # "refreshing" /\ RefreshSucceeded) =>
       LET carried == client.answer.data.refresh_token
       IN client.refreshToken =
            IF carried.def /\ carried.s # <<>> THEN carried ELSE client.atCall.refreshToken

\* The second operation refreshes with the refresh token the first response
\* carried, and keeps it when its own response carries an empty one
C24_Witness ==
  /\ client.calls = 2
  /\ client.pc = "request"
  /\ client.used = RefreshTokenOf(1)
  /\ client.used # client.config.refreshToken
  /\ RefreshSucceeded
  /\ client.answer.data.refresh_token = Text("")
  /\ client.refreshToken = RefreshTokenOf(1)

\* C25: if the token refresh needed by an operation fails for any reason, the
\* operation fails with AnafAuthenticationError, no API request is sent, and
\* the cached access token, the recorded expiry and the stored refresh token
\* are left as they were before the operation
C25_FailedRefreshChangesNothing ==
  (client.refreshes = 1 /\ client.pc = "idle" /\ ~RefreshSucceeded) =>
    /\ client.outcome.rejected
    /\ client.outcome.error.kind = "AnafAuthenticationError"
    /\ client.requests = 0
    /\ client.currentAccessToken = client.atCall.currentAccessToken
    /\ client.accessTokenExpiresAt = client.atCall.accessTokenExpiresAt
    /\ client.refreshToken = client.atCall.refreshToken

\* The second operation finds an expired token and its refresh is answered
\* with status 400: the expired token stays cached
C25_Witness ==
  /\ client.calls = 2
  /\ client.pc = "idle"
  /\ client.refreshes = 1
  /\ client.answer.response = Response(400)
  /\ client.currentAccessToken = 1
  /\ client.outcome.rejected

\* C28: a newly constructed client holds no cached access token, so its
\* first API operation calls the authenticator's refresh with the configured
\* refresh token before the API request is sent, even when config.accessToken
\* and config.expiresAt were supplied
C28_FirstOperationRefreshes ==
  /\ client.calls = 0 => client.currentAccessToken = 0
  /\ (client.calls = 1 /\ TokenDecided) =>
       /\ client.refreshes = 1
       /\ client.used = client.config.refreshToken
       /\ client.requests = 1 => RefreshSucceeded

\* A client given an access token that has not expired refreshes before its
\* first request, and sends the token of the refresh
C28_Witness ==
  /\ client.calls = 1
  /\ client.config.accessToken # 0
  /\ client.config.expiresAt - client.now > 30000
  /\ client.refreshes = 1
  /\ client.requests = 1
  /\ client.accessToken = client.answer.data.access_token
  /\ client.accessToken # client.config.accessToken

\* Operations p and q were started concurrently while no valid access token
\* was cached: both called the refresh, and no refresh response was handled
\* between their calls
StartedTogether(p, q) ==
  /\ p # q
  /\ client.ops[p].used.def
  /\ client.ops[q].used.def
  /\ client.ops[p].handledAtStart = client.ops[q].handledAtStart

\* Each of p and q issued one refresh request of its own, both with the same
\* stored refresh token
OwnRefreshSameToken(p, q) ==
  /\ \A o \in {p, q} :
       Cardinality({i \in 1..Len(client.refreshCalls) : client.refreshCalls[i].p = o}) = 1
  /\ client.ops[p].used = client.ops[q].used
  /\ \A i \in 1..Len(client.refreshCalls) :
       client.refreshCalls[i].p \in {p, q} =>
         client.refreshCalls[i].refreshToken = client.ops[p].used

AllFinished == \A p \in 1..MaxConcurrent : client.ops[p].pc \in {"done", "failed"}

LastOf(s) == s[Len(s)]

\* C27 as stated: two operations started concurrently on one client while no
\* valid access token is cached each issue their own refresh request with the
\* same stored refresh token; once both have finished (their refreshes
\* answered with tokens), the cached access token, the recorded expiry and the
\* stored refresh token are those of the refresh response handled last
C27_LastResponseWins ==
  \A p, q \in 1..MaxConcurrent :
    StartedTogether(p, q) =>
      /\ OwnRefreshSameToken(p, q)
      /\ (AllFinished /\ \A i \in 1..Len(client.handled) : client.handled[i].ok) =>
           /\ client.currentAccessToken = LastOf(client.handled).data.access_token
           /\ client.accessTokenExpiresAt =
                client.now + LastOf(client.handled).data.expires_in * 1000
           /\ client.refreshToken = LastOf(client.handled).data.refresh_token

\* C27, amended: two operations started concurrently on one client while no
\* valid access token is cached each issue their own refresh request with the
\* same stored refresh token; once all have finished, the cached access token
\* and the recorded expiry are those of the last refresh response handled
\* that carried tokens, and the stored refresh token is that of the last
\* such response that carried a non-empty refresh_token, the configured one
\* when none did
C27_LastStoredTokensWin ==
  /\ \A p, q \in 1..MaxConcurrent : StartedTogether(p, q) => OwnRefreshSameToken(p, q)
  /\ AllFinished =>
       LET ok == SelectSeq(client.handled, LAMBDA h : h.ok)
           carrying == SelectSeq(ok, LAMBDA h : h.data.refresh_token.def
                                                /\ h.data.refresh_token.s # <<>>)
       IN ok # <<>> =>
            /\ client.currentAccessToken = LastOf(ok).data.access_token
            /\ client.accessTokenExpiresAt = client.now + LastOf(ok).data.expires_in * 1000
            /\ client.refreshToken =
                 IF carrying = <<>> THEN client.config.refreshToken
                 ELSE LastOf(carrying).data.refresh_token

\* Two operations refresh with the configured refresh token; the response
\* handled first carries a refresh token, the one handled last carries none:
\* the access token is the last one, the refresh token the first one
C27_Witness ==
  /\ StartedTogether(1, 2)
  /\ AllFinished
  /\ Len(client.refreshCalls) = 2
  /\ client.ops[1].used = client.config.refreshToken
  /\ Len(client.handled) = 2
  /\ client.handled[1].ok /\ client.handled[2].ok
  /\ client.handled[1].data.refresh_token = RefreshTokenOf(1)
  /\ ~client.handled[2].data.refresh_token.def
  /\ client.currentAccessToken = 2
  /\ client.refreshToken = RefreshTokenOf(1)

\* The (category, percent) pair emitted on an invoice line or a tax subtotal
EmittedPair(element) == <<element.categoryId, element.percent>>

\* C29: in every document built from a non-empty line sequence, the pair
\* emitted on each invoice line equals the pair of exactly one emitted tax
\* subtotal, every emitted tax subtotal matches at least one line, and the
\* category computed for the line element is the one computed for grouping.
C29_LinePairsMatchSubtotals ==
  pc = "done" /\ Len(input.lines.items) > 0 =>
    /\ \A i \in 1..Len(doc.lines) :
         Cardinality({j \in 1..Len(doc.subtotals) :
                        EmittedPair(doc.subtotals[j]) = EmittedPair(doc.lines[i])}) = 1
    /\ \A j \in 1..Len(doc.subtotals) :
         \E i \in 1..Len(doc.lines) :
            EmittedPair(doc.lines[i]) = EmittedPair(doc.subtotals[j])
    /\ \A k \in 1..Len(input.lines.items) :
         lineTaxCategory(input.supplier.isVatPayer, PercentOf(LineAt(k)))
           = groupCategoryId(input.supplier.isVatPayer, PercentOf(LineAt(k)))

\* The line extension amounts emitted on the invoice lines, in document order
EmittedLineExtensions == [i \in 1..Len(doc.lines) |-> doc.lines[i].lineExtensionAmount]

\* C30: in every generated document the decimal sum of the line extension
\* amounts emitted on the invoice lines is the line-extension total of the
\* legal monetary total, for any number of lines and any mix of tax rates.
C30_LineExtensionsSumToTotal ==
  pc = "done" => doc.lineExtensionAmount = TextSum(EmittedLineExtensions)

\* C30 witness: a document of three lines at two rates, one of them with a
\* unit price that is rounded, whose total is above every line's amount
C30_Witness ==
  /\ pc = "done" /\ Len(doc.lines) = 3 /\ Len(doc.subtotals) = 2
  /\ ~doc.lineExtensionAmount.nan
  /\ \A i \in 1..3 : doc.lines[i].lineExtensionAmount.cents > 0
                       /\ doc.lineExtensionAmount.cents > doc.lines[i].lineExtensionAmount.cents
  /\ \E i \in 1..3 :
       ToFixed2(NumMul(LineAt(i).quantity.n, LineAt(i).unitPrice.n))
         # doc.lines[i].lineExtensionAmount

====
